---- MODULE Spec2Model ----
(***************************************************************************)
(* Quiz-chain orchestrator and single-quiz solver of quiz-solver.js        *)
(* (src/unnamed/part_002): solveMasterQuiz, solveSingleQuiz,               *)
(* solveQuizQuestion and submitAnswer, as one state machine.  Every        *)
(* `await` of the code is a suspension point: the call is put in           *)
(* `inflight`, the clock may advance while it is there, and a Return       *)
(* action resumes the code with the call's outcome (a value or a throw).   *)
(* The synchronous code between two awaits is one atomic action.           *)
(***************************************************************************)
EXTENDS Integers, Sequences, FiniteSets, TLC

\* ---------------------------------------------------------------- bounds
NumUrls == 2       \* distinct quiz URLs the grading server can name
MaxFiles == 2      \* longest file list a quiz page supplies
Tick == 80000      \* clock granularity in ms
MaxNow == 3        \* the clock is followed up to MaxNow * Tick ms after startTime
MaxLen == 3        \* longest completion, in pieces, parseAnswer is applied to alone
MaxName == 2       \* most pieces of a file link (URL and label together) classified alone
NumChains == 2     \* chains (accepted requests) running concurrently in the process
MaxOption == 4     \* largest options.maxRetries askClaude is called with
MaxHops == 1       \* times the grading server names a next URL to one of several concurrent chains

\* ------------------------------------------------------ program constants
TIMEOUT_MS == 170000
maxAttempts == 50
SafetyMargin == 10000
DefaultMaxRetries == 3

\* ----------------------------------------------------------------- values
Null == <<"null">>                       \* JS null / undefined
Url(i) == <<"url", i>>
URLs == {Url(i) : i \in 1..NumUrls}
SubmitUrl == <<"submit">>                \* the submission URL a page declares
FileTypes == {"csv", "excel", "pdf", "json", "image", "audio", "video", "text"}
AsyncTypes == {"csv", "excel", "pdf", "image", "audio", "video"}

Truthy(u) == u # Null

\* The history counter solverCalls stops counting one past the attempt cap.
CallsCap == maxAttempts + 1

Reason == <<"reason">>                  \* a reason text of the grading server
ErrorMessage == <<"error.message">>     \* the message of a caught error
Email == <<"email">>                    \* solveMasterQuiz: email
Secret == <<"secret">>                  \* solveMasterQuiz: secret

NoResult == [kind |-> "none", success |-> FALSE, nextUrl |-> Null, error |-> Null]
ResultOf(s, n, e) == [kind |-> "value", success |-> s, nextUrl |-> n, error |-> e]
Result(s, n) == ResultOf(s, n, Null)

\* Mutant of ErrorResult: the catch of solveSingleQuiz hands the quiz back as
\* the next URL (a retry).
ErrorResultRetry == ResultOf(FALSE, Url(1), ErrorMessage)

\* Mutant of ErrorResult: the catch of solveSingleQuiz rethrows.
ErrorResultRethrown ==
    [kind |-> "thrown", success |-> FALSE, nextUrl |-> Null, error |-> ErrorMessage]

\* catch (error) { return {success: false, error: error.message} }: no nextUrl
ErrorResult == ResultOf(FALSE, Null, ErrorMessage)

VARIABLES
    pc,            \* where the chain's code is suspended
    currentUrl,    \* solveMasterQuiz: currentUrl
    attemptCount,  \* solveMasterQuiz: attemptCount
    now,           \* clock ticks elapsed since startTime
    quizUrl,       \* solveSingleQuiz: quizUrl of the attempt in progress
    nFiles,        \* quizData.files.length of the page fetched in this attempt
    submitUrl,     \* quizData.submitUrl of the page fetched in this attempt
    fileIdx,       \* position of the for-of loop over files (1-based)
    inflight,      \* collaborator calls issued and not yet settled
    result,        \* what solveSingleQuiz resolved with
    endReason,     \* the exit path solveMasterQuiz took
    solverCalls,   \* history: number of solveSingleQuiz invocations (up to CallsCap)
    attempted,     \* history: URLs solveSingleQuiz was invoked on, up to the first repeat
    repeated,      \* history: some URL was invoked a second time
    att,           \* history of the attempt in progress (see NewAttempt)
    completion,     \* the completion askClaude returned
    answer,        \* solveSingleQuiz: answer, the result of parseAnswer
    fileInfo,      \* solveQuizQuestion: fileInfo of the file being processed
    fileType,      \* solveQuizQuestion: fileType, the result of detectFileType
    processedData, \* solveQuizQuestion: processedData of that file
    prompt,        \* the prompt of the askClaude call in flight, line by line
    request,       \* server: req.body of the POST /solve being handled
    responses,     \* server: status codes written to res, in order
    incoming,      \* server: Content-Type and body text of the POST not yet answered
    chains,        \* server: the locals of each solveMasterQuiz running concurrently
    browser,       \* browser-handler: the module variable browser
    llmBrowser,    \* llm-handler: the module variable llmBrowser
    llmPage,       \* llm-handler: the module variable llmPage
    launched,      \* history: puppeteer.launch calls resolved, per module
    callers,       \* position of each concurrent caller of getBrowser / initializeLLM
    pages,         \* browser-handler: the pages open in the browser
    proc,          \* processors: the locals of each processor invocation in progress
    tmpdir,        \* processors: the files in os.tmpdir()
    downloads,     \* file-downloader: the locals of each downloadMultiple invocation
    transform,     \* data-transformer: the arguments and locals of one transformData call
    ask            \* askClaude: the locals and the history of one invocation

vars == <<pc, currentUrl, attemptCount, now, quizUrl, nFiles, submitUrl, fileIdx,
          inflight, result, endReason, solverCalls, attempted, repeated, att,
          completion, answer, fileInfo, fileType, processedData, prompt,
          request, responses, incoming, chains, browser, llmBrowser, llmPage, launched, callers, pages, ask,
          proc, tmpdir, downloads, transform>>

llmVars == <<completion, answer>>
fileVars == <<fileInfo, fileType, processedData, prompt>>
serverVars == <<request, responses, incoming, chains>>
clientVars == <<browser, llmBrowser, llmPage, launched, callers, pages, ask>>
procVars == <<proc, tmpdir>>
toolVars == <<procVars, downloads, transform>>

chainVars == <<currentUrl, attemptCount, endReason, solverCalls, attempted, repeated>>
pageVars == <<nFiles, submitUrl>>

\* History of one attempt, reset at each solveSingleQuiz invocation.
NewAttempt ==
    [downloads |-> 0,         \* downloadFile calls issued
     failed |-> 0,            \* files whose try block ended in catch (fileError)
     extracted |-> 0,         \* files whose download and extraction succeeded
     firstExtracted |-> 0,    \* index of the first such file
     filePrompts |-> 0,       \* askClaude(analysisPrompt) calls issued
     fileAnswered |-> FALSE,  \* one of them returned a completion
     ctxPrompt |-> FALSE,     \* askClaude(directPrompt) was issued
     submits |-> 0,           \* axios.post calls issued
     fetch |-> "none",        \* extractQuizFromPage: "ok" or "failed"
     posted |-> Null,         \* the POST issued: [to, body]
     submit |-> "none",       \* how axios.post settled: "2xx", "error", "throw"
     body |-> Null]           \* the response body received


\* ------------------------------------------------------- solveMasterQuiz
\* Mutant of LoopCondition: the cap compared with <= (one iteration too many).
LoopConditionOffByOne(url, count) == Truthy(url) /\ count <= maxAttempts

\* while (currentUrl && attemptCount < maxAttempts)
LoopCondition(url, count) == Truthy(url) /\ count < maxAttempts

\* Mutant of NextAttemptCount: the increment is lost.
NextAttemptCountLost(count) == count

\* attemptCount++
NextAttemptCount(count) == count + 1

\* const elapsed = Date.now() - startTime
Elapsed(t) == t * Tick

\* Mutant of Remaining: the elapsed time is not subtracted.
RemainingNoElapsed(t) == TIMEOUT_MS

\* const remaining = TIMEOUT_MS - elapsed
Remaining(t) == TIMEOUT_MS - Elapsed(t)

\* Mutant of TimeExceeded: the comparison is reversed.
TimeExceededReversed(remaining) == remaining > SafetyMargin

\* if (remaining < 10000) break
TimeExceeded(remaining) == remaining < SafetyMargin

\* Mutant of MasterNext: a failed attempt always ends the chain.
MasterNextStopOnFailure(r, cur) ==
    IF r.kind = "value" /\ r.success /\ Truthy(r.nextUrl)
    THEN [brk |-> FALSE, url |-> r.nextUrl, reason |-> "none"]
    ELSE [brk |-> TRUE, url |-> cur,
          reason |-> IF r.kind = "value" /\ r.success THEN "complete" ELSE "failed"]

\* Mutant of MasterNext: a success without a next URL does not break.
MasterNextNoBreakOnComplete(r, cur) ==
    IF r.kind = "thrown"
    THEN [brk |-> TRUE, url |-> cur, reason |-> "error"]
    ELSE IF Truthy(r.nextUrl)
    THEN [brk |-> FALSE, url |-> r.nextUrl, reason |-> "none"]
    ELSE IF r.success
    THEN [brk |-> FALSE, url |-> cur, reason |-> "none"]
    ELSE [brk |-> TRUE, url |-> cur, reason |-> "failed"]

\* Mutant of MasterNext: a failure without a next URL retries the same URL.
MasterNextRetryOnFailure(r, cur) ==
    IF r.kind = "thrown"
    THEN [brk |-> TRUE, url |-> cur, reason |-> "error"]
    ELSE IF Truthy(r.nextUrl)
    THEN [brk |-> FALSE, url |-> r.nextUrl, reason |-> "none"]
    ELSE IF r.success
    THEN [brk |-> TRUE, url |-> cur, reason |-> "complete"]
    ELSE [brk |-> FALSE, url |-> cur, reason |-> "none"]

\* The branches taken on the settled solveSingleQuiz call: whether the loop is
\* left (brk), the value of currentUrl afterwards, and the exit path.
MasterNext(r, cur) ==
    IF r.kind = "thrown"
    THEN [brk |-> TRUE, url |-> cur, reason |-> "error"]
    ELSE IF r.success
    THEN IF Truthy(r.nextUrl)
         THEN [brk |-> FALSE, url |-> r.nextUrl, reason |-> "none"]
         ELSE [brk |-> TRUE, url |-> cur, reason |-> "complete"]
    ELSE IF Truthy(r.nextUrl)
         THEN [brk |-> FALSE, url |-> r.nextUrl, reason |-> "none"]
         ELSE [brk |-> TRUE, url |-> cur, reason |-> "failed"]

\* ------------------------------------------------------------ parseAnswer
\* A completion is a sequence of lexical pieces; each piece stands for exactly
\* the characters of its name, so "[1]" is <<"[", "1", "]">> and {"a":1} is
\* <<"{", Member, "}">>.  No two different sequences spell the same text.
Space == " "
Member == "\"a\":1"
Pieces == {Space, "{", "}", "[", "]", "1", "-", ".", "true", "FALSE", "data:",
           "a", "Infinity", "0x", Member}

\* rawAnswer.trim()
RECURSIVE TrimLeft(_)
TrimLeft(s) == IF s # <<>> /\ Head(s) = Space THEN TrimLeft(Tail(s)) ELSE s

RECURSIVE TrimRight(_)
TrimRight(s) ==
    IF s # <<>> /\ s[Len(s)] = Space THEN TrimRight(SubSeq(s, 1, Len(s) - 1)) ELSE s

Trim(s) == TrimRight(TrimLeft(s))

\* Mutant of Lower: the comparison with 'true' / 'false' is case-sensitive.
LowerLost(piece) == piece

\* String.prototype.toLowerCase, piece by piece
Lower(piece) ==
    IF piece = "FALSE" THEN "false"
    ELSE IF piece = "Infinity" THEN "infinity"
    ELSE IF piece = ".CSV" THEN ".csv"
    ELSE IF piece = "PDF" THEN "pdf"
    ELSE piece

ToLowerCase(s) == [i \in 1..Len(s) |-> Lower(s[i])]

StartsWith(s, piece) == s # <<>> /\ s[1] = piece
EndsWith(s, piece) == s # <<>> /\ s[Len(s)] = piece

IsDigits(s) == s # <<>> /\ \A i \in 1..Len(s) : s[i] = "1"

\* The JSON grammar on the pieces: number, true, array, object.
JsonNumber(s) ==
    LET u == IF StartsWith(s, "-") THEN Tail(s) ELSE s IN
    \/ IsDigits(u)
    \/ \E k \in 1..Len(u) :
          /\ u[k] = "."
          /\ IsDigits(SubSeq(u, 1, k - 1))
          /\ IsDigits(SubSeq(u, k + 1, Len(u)))

RECURSIVE JsonValid(_)
JsonValid(s) ==
    LET t == Trim(s)
        inner == Trim(SubSeq(t, 2, Len(t) - 1))
    IN \/ JsonNumber(t)
       \/ t = <<"true">>
       \/ /\ Len(t) >= 2 /\ StartsWith(t, "[") /\ EndsWith(t, "]")
          /\ (inner = <<>> \/ JsonValid(inner))
       \/ /\ Len(t) >= 2 /\ StartsWith(t, "{") /\ EndsWith(t, "}")
          /\ (inner = <<>> \/ inner = <<Member>>)

\* Mutant of TryJsonParse: JSON.parse is called without the try / catch.
TryJsonParseNoCatch(t) == IF JsonValid(t) THEN "json" ELSE "raised"

\* try { return JSON.parse(trimmed) } catch (e) { }
TryJsonParse(t) == IF JsonValid(t) THEN "json" ELSE "none"

\* (startsWith('{') && endsWith('}')) || (startsWith('[') && endsWith(']'))
Bracketed(t) ==
    \/ StartsWith(t, "{") /\ EndsWith(t, "}")
    \/ StartsWith(t, "[") /\ EndsWith(t, "]")

\* Number(trimmed): the StringNumericLiteral grammar on the pieces.  "finite"
\* tells Infinity and -Infinity from the rest; the empty string converts to 0.
StrUnsignedDecimal(s) ==
    \/ s = <<"Infinity">>
    \/ IsDigits(s)
    \/ \E k \in 1..Len(s) :
          /\ s[k] = "."
          /\ Len(s) >= 2
          /\ \A i \in 1..Len(s) : i # k => s[i] = "1"

HexLiteral(s) ==
    /\ Len(s) >= 2
    /\ s[1] = "0x"
    /\ \A i \in 2..Len(s) : s[i] \in {"1", "a"}

ToNumber(s) ==
    LET u == IF StartsWith(s, "-") THEN Tail(s) ELSE s IN
    IF s = <<>> \/ StrUnsignedDecimal(u) \/ HexLiteral(s)
    THEN [nan |-> FALSE, finite |-> u # <<"Infinity">>]
    ELSE [nan |-> TRUE, finite |-> FALSE]

\* The typed answers parseAnswer returns; text is the trimmed completion the
\* value was read from.
Answer(tag, text) == [tag |-> tag, text |-> text, finite |-> TRUE]
NumberAnswer(text, num) == [tag |-> "Number", text |-> text, finite |-> num.finite]
Raised == [tag |-> "raised", text |-> <<>>, finite |-> TRUE]
NoAnswer == [tag |-> "none", text |-> <<>>, finite |-> TRUE]

ParseAnswer(rawAnswer) ==
    LET trimmed == Trim(rawAnswer)
        json == IF Bracketed(trimmed) THEN TryJsonParse(trimmed) ELSE "none"
        num == ToNumber(trimmed)
    IN IF json = "raised" THEN Raised
       ELSE IF json = "json" THEN Answer("JSON", trimmed)
       ELSE IF ToLowerCase(trimmed) = <<"true">> THEN Answer("Boolean", <<"true">>)
       ELSE IF ToLowerCase(trimmed) = <<"false">> THEN Answer("Boolean", <<"false">>)
       ELSE IF ~num.nan /\ trimmed # <<>> THEN NumberAnswer(trimmed, num)
       ELSE IF StartsWith(trimmed, "data:") THEN Answer("DataURI", trimmed)
       ELSE Answer("String", trimmed)

\* --------------------------------------------------------- detectFileType
\* A URL or a link text is a sequence of pieces, as a completion is.  The
\* pieces are whole extensions, which start with the only "." they hold, and
\* words without a ".": a pattern of detectFileType can begin only where an
\* extension piece begins.
Extensions == {".csv", ".xlsx", ".xls", ".pdf", ".json", ".jpg", ".jpeg", ".png",
               ".gif", ".bmp", ".webp", ".mp3", ".wav", ".ogg", ".m4a", ".mp4",
               ".avi", ".mov", ".mkv"}
NamePieces == Extensions \cup {".CSV", ".txt", "PDF", "http://x/file"}

\* The patterns that occur in a piece: the piece itself and, for ".xlsx", its
\* prefix ".xls".
PatternsIn(piece) == IF piece = ".xlsx" THEN {".xlsx", ".xls"} ELSE {piece}

\* lower.includes(pattern)
Includes(lower, pattern) == \E i \in 1..Len(lower) : pattern \in PatternsIn(lower[i])

\* Mutant of DetectFileType: the pdf test is made before the csv test.
DetectFileTypePdfFirst(url, fileName) ==
    LET lower == ToLowerCase(url \o <<Space>> \o fileName) IN
    IF Includes(lower, ".pdf") THEN "pdf"
    ELSE IF Includes(lower, ".csv") THEN "csv"
    ELSE IF Includes(lower, ".xlsx") \/ Includes(lower, ".xls") THEN "excel"
    ELSE IF Includes(lower, ".json") THEN "json"
    ELSE IF \E e \in {".jpg", ".jpeg", ".png", ".gif", ".bmp", ".webp"} :
               Includes(lower, e) THEN "image"
    ELSE IF \E e \in {".mp3", ".wav", ".ogg", ".m4a"} : Includes(lower, e) THEN "audio"
    ELSE IF \E e \in {".mp4", ".avi", ".mov", ".mkv"} : Includes(lower, e) THEN "video"
    ELSE "text"

\* Mutant of DetectFileType: only the URL is searched, the link text is not.
DetectFileTypeUrlOnly(url, fileName) ==
    LET lower == ToLowerCase(url) IN
    IF Includes(lower, ".csv") THEN "csv"
    ELSE IF Includes(lower, ".xlsx") \/ Includes(lower, ".xls") THEN "excel"
    ELSE IF Includes(lower, ".pdf") THEN "pdf"
    ELSE IF Includes(lower, ".json") THEN "json"
    ELSE IF \E e \in {".jpg", ".jpeg", ".png", ".gif", ".bmp", ".webp"} :
               Includes(lower, e) THEN "image"
    ELSE IF \E e \in {".mp3", ".wav", ".ogg", ".m4a"} : Includes(lower, e) THEN "audio"
    ELSE IF \E e \in {".mp4", ".avi", ".mov", ".mkv"} : Includes(lower, e) THEN "video"
    ELSE "text"

\* detectFileType(url, fileName)
DetectFileType(url, fileName) ==
    LET lower == ToLowerCase(url \o <<Space>> \o fileName) IN
    IF Includes(lower, ".csv") THEN "csv"
    ELSE IF Includes(lower, ".xlsx") \/ Includes(lower, ".xls") THEN "excel"
    ELSE IF Includes(lower, ".pdf") THEN "pdf"
    ELSE IF Includes(lower, ".json") THEN "json"
    ELSE IF \E e \in {".jpg", ".jpeg", ".png", ".gif", ".bmp", ".webp"} :
               Includes(lower, e) THEN "image"
    ELSE IF \E e \in {".mp3", ".wav", ".ogg", ".m4a"} : Includes(lower, e) THEN "audio"
    ELSE IF \E e \in {".mp4", ".avi", ".mov", ".mkv"} : Includes(lower, e) THEN "video"
    ELSE "text"

\* A file link of a quiz page: fileInfo.url and fileInfo.text
FileInfo(url, text) == [url |-> url, text |-> text]

\* ------------------------------------------------------- solveQuizQuestion
\* Mutant of HasNextFile: the last file of the list is skipped.
HasNextFileSkipLast(i, n) == i < n

\* for (const fileInfo of files): is there a file at position i of n
HasNextFile(i, n) == i <= n

\* Mutant of DownloadCalls: all remaining files are downloaded at once.
DownloadCallsAll(i, n) == {<<"download", j>> : j \in i..n}

\* await downloadFile(fileInfo.url): the downloads issued on reaching file i
DownloadCalls(i, n) == {<<"download", i>>}

\* Mutant of ReturnsAfterFileQuery: the answer is returned (and submitted)
\* whether the file query succeeded or not.
ReturnsAfterFileQueryAlways(ok) == TRUE

\* Mutant of ReturnsAfterFileQuery: the return is lost, the loop goes on.
ReturnsAfterFileQueryNever(ok) == FALSE

\* return parseAnswer(answer) after askClaude(analysisPrompt); a throw of
\* askClaude is caught by catch (fileError) and the loop goes on
ReturnsAfterFileQuery(ok) == ok

\* The files a quiz page can link, one for each tag of detectFileType; the
\* last one names its format only by a word in the link text.
SampleFiles ==
    {FileInfo(<<"http://x/file", ".CSV">>, <<>>),
     FileInfo(<<"http://x/file", ".xlsx">>, <<>>),
     FileInfo(<<"http://x/file">>, <<"http://x/file", ".pdf">>),
     FileInfo(<<"http://x/file", ".json">>, <<>>),
     FileInfo(<<"http://x/file", ".png">>, <<>>),
     FileInfo(<<"http://x/file", ".mp3">>, <<>>),
     FileInfo(<<"http://x/file", ".mp4">>, <<>>),
     FileInfo(<<"http://x/file">>, <<"PDF">>)}

\* The if / else-if chain on fileType: the processor awaited for a tag
Processor(t) ==
    CASE t = "csv" -> "processCSV"
      [] t = "pdf" -> "processPDF"
      [] t = "image" -> "processImage"
      [] t = "audio" -> "processAudio"
      [] t = "video" -> "processVideo"
      [] t = "excel" -> "processExcel"

\* Mutant of ExtractorCalls: an excel file is also given to processCSV.
ExtractorCallsExcelTwice(t) ==
    IF t = "excel"
    THEN {<<"extract", "processExcel">>, <<"extract", "processCSV">>}
    ELSE {<<"extract", Processor(t)>>}

\* processedData = await processX(fileData): the processor calls issued
ExtractorCalls(t) == {<<"extract", Processor(t)>>}

\* The values processedData takes: what a processor resolved with, the parsed
\* JSON text, or the downloaded bytes as text.
Output(processor) == <<"output", processor>>
ParsedJson == <<"JSON.parse(fileData.toString())">>
DecodedText == <<"fileData.toString()">>

\* The prompts, line by line.  Question and Content stand for quizData.question
\* and quizData.content.
Question == "${question}"
Content == "${content}"

\* typeof processedData === 'object' ? JSON.stringify(processedData, null, 2)
\*                                    : processedData
Render(pd) == IF pd = DecodedText THEN pd ELSE <<"JSON.stringify", pd>>

\* The instruction block that ends analysisPrompt
AnalysisInstructions ==
    <<"Analyze this data and provide the EXACT answer to the question. Your response should be ONLY the answer value, nothing else.",
      "Rules:",
      "- If the answer is a number, respond with just the number (e.g., 42 or 3.14)",
      "- If the answer is text, respond with just the text (e.g., \"hello\")",
      "- If the answer is boolean, respond with true or false",
      "- If the answer is a JSON object, respond with valid JSON only",
      "- If you need to generate a chart/image, create it and respond with the base64 data URI",
      "- Do not include any explanation or extra text",
      "Answer:">>

\* const analysisPrompt = `...`
AnalysisPrompt(text, pd) ==
    <<"You are solving a quiz question. Here is the question:",
      Question,
      "Here is the processed data from the file", text, Render(pd),
      "Additional context from the page:",
      Content>> \o AnalysisInstructions

\* The instruction block that ends directPrompt
DirectInstructions ==
    <<"Analyze this and provide the EXACT answer. Your response should be ONLY the answer value.",
      "Rules:",
      "- If the answer is a number, respond with just the number",
      "- If the answer is text, respond with just the text",
      "- If the answer is boolean, respond with true or false",
      "- If the answer is a JSON object, respond with valid JSON only",
      "- Do not include any explanation",
      "Answer:">>

\* const directPrompt = `...`
DirectPrompt ==
    <<"You are solving a quiz question. Here is the complete context:",
      "Question:", Question,
      "Page content:",
      Content>> \o DirectInstructions

\* The for-of loop at position i of a list of n files, entered with attempt
\* history a and outstanding calls fl; past the last file the code falls to
\* askClaude(directPrompt).
FileLoop(i, n, a, fl) ==
    /\ fileIdx' = i
    /\ fileInfo' = Null
    /\ fileType' = Null
    /\ processedData' = Null
    /\ IF HasNextFile(i, n)
       THEN /\ pc' = "download"
            /\ inflight' = fl \cup DownloadCalls(i, n)
            /\ att' = [a EXCEPT !.downloads = @ + 1]
            /\ prompt' = <<>>
       ELSE /\ pc' = "askDirect"
            /\ inflight' = fl \cup {<<"llm", "direct">>}
            /\ att' = [a EXCEPT !.ctxPrompt = TRUE]
            /\ prompt' = DirectPrompt

\* Mutant of NextFileAfterError: the catch leaves the loop (break), so the
\* files after a failed one are skipped.
NextFileAfterErrorBreaks(i, n) == n + 1

\* catch (fileError) only logs: the for-of loop goes on with the file after i
NextFileAfterError(i, n) == i + 1

\* catch (fileError): log and go on with the next file
FileFailed(a, fl) ==
    FileLoop(NextFileAfterError(fileIdx, nFiles), nFiles, [a EXCEPT !.failed = @ + 1], fl)

\* processedData of the file f with tag t obtained as pd:
\* askClaude(analysisPrompt)
FileExtracted(f, t, pd, fl) ==
    /\ pc' = "askFile"
    /\ fileInfo' = f
    /\ fileType' = t
    /\ processedData' = pd
    /\ prompt' = AnalysisPrompt(f.text, pd)
    /\ inflight' = fl \cup {<<"llm", "file">>}
    /\ att' = [att EXCEPT !.extracted = @ + 1,
                          !.firstExtracted = IF @ = 0 THEN fileIdx ELSE @,
                          !.filePrompts = @ + 1]
    /\ fileIdx' = fileIdx

\* ------------------------------------------------------- solveSingleQuiz
\* Mutant of SubmitPayload: the url field carries the submission URL instead
\* of the quiz URL.
SubmitPayloadWrongUrl(q, su, ans) ==
    [email |-> Email, secret |-> Secret, url |-> su, answer |-> ans]

\* const payload = {email, secret, url: quizUrl, answer}
SubmitPayload(q, su, ans) ==
    [email |-> Email, secret |-> Secret, url |-> q, answer |-> ans]

\* submitAnswer(email, secret, quizUrl, answer, quizData.submitUrl), entered
\* with the answer ans: axios.post(submitUrl, payload, ...)
Submit(a, ans, fl) ==
    /\ pc' = "submit"
    /\ inflight' = fl \cup {<<"submit", submitUrl>>}
    /\ att' = [a EXCEPT !.submits = @ + 1,
                        !.posted = [to |-> submitUrl,
                                    body |-> SubmitPayload(quizUrl, submitUrl, ans)]]
    /\ fileIdx' = fileIdx
    /\ fileInfo' = Null
    /\ fileType' = Null
    /\ processedData' = Null
    /\ prompt' = <<>>

\* Mutant of SubmitAnswerResult: an error status is rethrown even when the
\* error carries a response.
SubmitAnswerResultRethrows(status, body) ==
    IF status = "2xx"
    THEN [thrown |-> FALSE, data |-> body]
    ELSE [thrown |-> TRUE, data |-> Null]

\* submitAnswer: return response.data; in the catch, return
\* error.response.data when error.response exists, else throw error
SubmitAnswerResult(status, body) ==
    IF status \in {"2xx", "error"}
    THEN [thrown |-> FALSE, data |-> body]
    ELSE [thrown |-> TRUE, data |-> Null]

\* Mutant of SolveSingleResult: the next URL is passed on only for a correct
\* answer.
SolveSingleResultDropsUrl(body) ==
    ResultOf(body.correct, IF body.correct THEN body.url ELSE Null, body.reason)

\* return {success: submitResult.correct, nextUrl: submitResult.url,
\*         error: submitResult.reason}
SolveSingleResult(body) == ResultOf(body.correct, body.url, body.reason)

\* response.data / error.response.data the grading server can answer with
Bodies == [correct : BOOLEAN, url : URLs \cup {Null}, reason : {Null, Reason}]

\* The completions the LLM client returns in a chain.
Completions == {<<"1">>, <<Space, "FALSE">>}

\* What is left of an attempt's history once solveSingleQuiz has returned:
\* how the page fetch and the submission ended.
Settled(a) ==
    [NewAttempt EXCEPT !.fetch = a.fetch, !.submit = a.submit, !.body = a.body]

\* solveSingleQuiz settles with r and its locals (quizData, answer) are gone;
\* solveMasterQuiz resumes after its await
Resolve(r, a, fl) ==
    /\ pc' = "resume"
    /\ result' = r
    /\ inflight' = fl
    /\ att' = Settled(a)
    /\ nFiles' = 0
    /\ submitUrl' = Null
    /\ fileIdx' = 0
    /\ completion' = <<>>
    /\ answer' = NoAnswer
    /\ fileInfo' = Null
    /\ fileType' = Null
    /\ processedData' = Null
    /\ prompt' = <<>>

\* ------------------------------------------------------------ POST /solve
ExpectedSecret == Secret                 \* process.env.SECRET || 'your-secret-here'
WrongSecret == <<"another secret">>

\* req.body: no object at all, or an object whose email, secret and url are
\* each absent or present.
NoBody == [object |-> FALSE, email |-> Null, secret |-> Null, url |-> Null]
RequestBodies ==
    {NoBody} \cup [object : {TRUE},
                   email : {Null, Email},
                   secret : {Null, Secret, WrongSecret},
                   url : {Null} \cup URLs]

\* A POST as it arrives: its Content-Type and whether its body text is JSON.
NoIncoming == [contentType |-> "none", text |-> "none"]
Incoming ==
    [contentType : {"application/json", "application/x-www-form-urlencoded", "text/plain"},
     text : {"json", "invalid json content"}]

\* The status the error-handling middleware answers with, whatever the error.
ErrorMiddlewareStatus == 500

\* app.use(express.json(...)); app.use(express.urlencoded(...)): the JSON
\* parser handles application/json and hands a body it cannot parse to the
\* error handling as an error; the form parser handles urlencoded bodies,
\* and a text that is no form of email, secret and url yields none of them;
\* any other type is left unparsed (req.body undefined or {}, by version).
BodyParsers(post) ==
    IF post.contentType = "application/json"
    THEN IF post.text = "json"
         THEN [error |-> FALSE, bodies |-> RequestBodies \ {NoBody}]
         ELSE [error |-> TRUE, bodies |-> {}]
    ELSE IF post.contentType = "application/x-www-form-urlencoded"
    THEN [error |-> FALSE,
          bodies |-> {[object |-> TRUE, email |-> Null, secret |-> Null, url |-> Null]}]
    ELSE [error |-> FALSE,
          bodies |-> {NoBody, [object |-> TRUE, email |-> Null, secret |-> Null, url |-> Null]}]

\* What one run of the handler does: the status codes it writes to res, and
\* whether it calls solveMasterQuiz.
Reply(sent, chain) == [sent |-> sent, chain |-> chain]

\* Mutant of PostSolveOutcome: the chain is started for a refused secret too.
PostSolveOutcomeChainOnForbidden(body) ==
    IF ~body.object THEN Reply(<<400>>, FALSE)
    ELSE IF ~Truthy(body.email) \/ ~Truthy(body.secret) \/ ~Truthy(body.url)
         THEN Reply(<<400>>, FALSE)
    ELSE IF body.secret # ExpectedSecret THEN Reply(<<403>>, TRUE)
    ELSE Reply(<<200>>, TRUE)

\* Mutant of PostSolveOutcome: the chain is started and nothing is written to
\* res by the handler.
PostSolveOutcomeNoAcknowledgement(body) ==
    IF ~body.object THEN Reply(<<400>>, FALSE)
    ELSE IF ~Truthy(body.email) \/ ~Truthy(body.secret) \/ ~Truthy(body.url)
         THEN Reply(<<400>>, FALSE)
    ELSE IF body.secret # ExpectedSecret THEN Reply(<<403>>, FALSE)
    ELSE Reply(<<>>, TRUE)

\* app.post('/solve', ...): the three early returns, then res.status(200)
\* and solveMasterQuiz(email, secret, url, startTime).catch(...)
PostSolveOutcome(body) ==
    IF ~body.object THEN Reply(<<400>>, FALSE)
    ELSE IF ~Truthy(body.email) \/ ~Truthy(body.secret) \/ ~Truthy(body.url)
         THEN Reply(<<400>>, FALSE)
    ELSE IF body.secret # ExpectedSecret THEN Reply(<<403>>, FALSE)
    ELSE Reply(<<200>>, TRUE)

\* ------------------------------------------------- browser and LLM client
\* Everything solveMasterQuiz and the functions under it keep.
solverVars == <<pc, currentUrl, attemptCount, now, quizUrl, nFiles, submitUrl, fileIdx,
                inflight, result, endReason, solverCalls, attempted, repeated, att,
                llmVars, fileVars>>

Browser(n) == <<"browser", n>>           \* what the n-th puppeteer.launch of a module resolves with
PageOf(b) == <<"page", b>>               \* what b.newPage() resolves with

\* options.maxRetries: absent (options = {}), or a number up to MaxOption.
NoOption == <<>>
Options == {NoOption} \cup {<<n>> : n \in 0..MaxOption}

\* const maxRetries = options.maxRetries || 3
MaxRetriesOf(option) ==
    IF option = NoOption THEN DefaultMaxRetries
    ELSE IF option[1] = 0 THEN DefaultMaxRetries
    ELSE option[1]

\* setTimeout(resolve, 1000 * attempt)
Delay(attempt) == 1000 * attempt

\* Mutant of HasRetry: a wait follows the last allowed call too.
HasRetryAlways(attempt, maxRetries) == TRUE

\* if (attempt < maxRetries), in the else branch and in the catch
HasRetry(attempt, maxRetries) == attempt < maxRetries

\* The locals and the history of one askClaude invocation: options.maxRetries,
\* maxRetries, attempt, the outcome of each llmPage.evaluate in order, and the
\* delays waited in order.
NewAsk(option) ==
    [option |-> option, maxRetries |-> 0, attempt |-> 0, calls |-> <<>>, waits |-> <<>>]
NoAsk == NewAsk(NoOption)

\* let browser = null; let llmBrowser = null; let llmPage = null; nobody has
\* called getBrowser, initializeLLM or askClaude.
\* No transformData call.
NoTransform == [at |-> "none"]

\* No processor, download or transformation is in progress.
ToolsIdle ==
    /\ proc = <<>>
    /\ tmpdir = {}
    /\ downloads = <<>>
    /\ transform = NoTransform

ClientIdle ==
    /\ browser = Null
    /\ llmBrowser = Null
    /\ llmPage = Null
    /\ launched = [browser |-> 0, llm |-> 0]
    /\ callers = <<>>
    /\ pages = {}
    /\ ask = NoAsk

\* A caller: the await it is suspended on (or the call it is about to make),
\* the browser its initializeLLM called newPage on, and whether its
\* extractQuizFromPage got a page from br.newPage().
Caller(at) == [at |-> at, target |-> Null, opened |-> FALSE]

\* Caller i moves to position pos.
Goto(i, pos) == callers' = [callers EXCEPT ![i].at = pos]

\* getBrowser(), called first thing by extractQuizFromPage: if (!browser)
\* it suspends on puppeteer.launch, else it returns browser.
GetBrowser(i) ==
    /\ callers[i].at = "start"
    /\ Goto(i, IF ~Truthy(browser) THEN "launching" ELSE "fetching")
    /\ UNCHANGED <<browser, llmBrowser, llmPage, launched, ask, pages, solverVars, serverVars, toolVars>>

\* browser = await puppeteer.launch(...) resolves and is assigned.
BrowserLaunched(i) ==
    /\ callers[i].at = "launching"
    /\ launched' = [launched EXCEPT !.browser = @ + 1]
    /\ browser' = Browser(launched'.browser)
    /\ Goto(i, "fetching")
    /\ UNCHANGED <<llmBrowser, llmPage, ask, pages, solverVars, serverVars, toolVars>>

\* puppeteer.launch rejects: getBrowser, and extractQuizFromPage with it, raise.
BrowserLaunchFail(i) ==
    /\ callers[i].at = "launching"
    /\ Goto(i, "raised")
    /\ UNCHANGED <<browser, llmBrowser, llmPage, launched, ask, pages, solverVars, serverVars, toolVars>>

\* The page extractQuizFromPage of caller i works on.
QuizPage(i) == <<"page", i>>

\* Mutant of ClosesPage: the page is closed on the success path only.
ClosesPageOnSuccessOnly(failed) == ~failed

\* finally { await page.close(); } runs whether the try block returned or
\* its catch rethrew.
ClosesPage(failed) == TRUE

\* const page = await br.newPage() resolves, before the try block is entered.
NewPageOk(i) ==
    /\ callers[i].at = "fetching"
    /\ pages' = pages \cup {QuizPage(i)}
    /\ callers' = [callers EXCEPT ![i] = [@ EXCEPT !.at = "navigating", !.opened = TRUE]]
    /\ UNCHANGED <<browser, llmBrowser, llmPage, launched, ask, solverVars, serverVars, toolVars>>

\* br.newPage() rejects: no page was opened and extractQuizFromPage raises.
NewPageFail(i) ==
    /\ callers[i].at = "fetching"
    /\ Goto(i, "raised")
    /\ UNCHANGED <<browser, llmBrowser, llmPage, launched, ask, pages, solverVars, serverVars, toolVars>>

\* page.goto resolves within its 30 s timeout.
Navigated(i) ==
    /\ callers[i].at = "navigating"
    /\ Goto(i, "evaluating")
    /\ UNCHANGED <<browser, llmBrowser, llmPage, launched, ask, pages, solverVars, serverVars, toolVars>>

\* The try block is left by an exception: catch logs and rethrows, then the
\* finally block runs.
PageWorkFailed(i) ==
    IF ClosesPage(TRUE)
    THEN /\ Goto(i, "closingFailed")
         /\ UNCHANGED <<browser, llmBrowser, llmPage, launched, ask, pages, solverVars, serverVars, toolVars>>
    ELSE /\ Goto(i, "raised")
         /\ UNCHANGED <<browser, llmBrowser, llmPage, launched, ask, pages, solverVars, serverVars, toolVars>>

\* page.goto rejects (navigation timeout, network error).
NavigationFail(i) ==
    /\ callers[i].at = "navigating"
    /\ PageWorkFailed(i)

\* waitForTimeout and page.evaluate resolve; the try block returns quizData.
Evaluated(i) ==
    /\ callers[i].at = "evaluating"
    /\ IF ClosesPage(FALSE)
       THEN Goto(i, "closing")
       ELSE Goto(i, "askClaude")
    /\ UNCHANGED <<browser, llmBrowser, llmPage, launched, ask, pages, solverVars, serverVars, toolVars>>

\* page.evaluate rejects.
EvaluationFail(i) ==
    /\ callers[i].at = "evaluating"
    /\ PageWorkFailed(i)

\* await page.close() in the finally block resolves: extractQuizFromPage
\* settles, with quizData (the chain reaches its askClaude call) or with the
\* rethrown error.
PageClosed(i) ==
    /\ callers[i].at \in {"closing", "closingFailed"}
    /\ pages' = pages \ {QuizPage(i)}
    /\ Goto(i, IF callers[i].at = "closing" THEN "askClaude" ELSE "raised")
    /\ UNCHANGED <<browser, llmBrowser, llmPage, launched, ask, solverVars, serverVars, toolVars>>

\* await initializeLLM(), first thing in askClaude: if (!llmBrowser) it
\* suspends on puppeteer.launch, else it returns.
InitializeLLM(i) ==
    /\ callers[i].at = "askClaude"
    /\ Goto(i, IF ~Truthy(llmBrowser) THEN "llmLaunching" ELSE "ready")
    /\ UNCHANGED <<browser, llmBrowser, llmPage, launched, ask, pages, solverVars, serverVars, toolVars>>

\* llmBrowser = await puppeteer.launch(...) resolves and is assigned; newPage
\* is called on the browser just assigned.
LlmLaunched(i) ==
    /\ callers[i].at = "llmLaunching"
    /\ launched' = [launched EXCEPT !.llm = @ + 1]
    /\ llmBrowser' = Browser(launched'.llm)
    /\ callers' = [callers EXCEPT ![i] = [@ EXCEPT !.at = "llmNewPage", !.target = llmBrowser']]
    /\ UNCHANGED <<browser, llmPage, ask, pages, solverVars, serverVars, toolVars>>

\* puppeteer.launch rejects: initializeLLM, and askClaude with it, raise.
LlmLaunchFail(i) ==
    /\ callers[i].at = "llmLaunching"
    /\ Goto(i, "initRaised")
    /\ UNCHANGED <<browser, llmBrowser, llmPage, launched, ask, pages, solverVars, serverVars, toolVars>>

\* llmPage = await llmBrowser.newPage() resolves and is assigned; setContent
\* is called on it.
LlmPageOpened(i) ==
    /\ callers[i].at = "llmNewPage"
    /\ llmPage' = PageOf(callers[i].target)
    /\ Goto(i, "llmLoading")
    /\ UNCHANGED <<browser, llmBrowser, launched, ask, pages, solverVars, serverVars, toolVars>>

\* newPage rejects: llmBrowser stays assigned, llmPage stays null.
LlmPageFail(i) ==
    /\ callers[i].at = "llmNewPage"
    /\ Goto(i, "initRaised")
    /\ UNCHANGED <<browser, llmBrowser, llmPage, launched, ask, pages, solverVars, serverVars, toolVars>>

\* setContent and waitForTimeout(2000) resolve: initializeLLM returns.
LlmLoaded(i) ==
    /\ callers[i].at = "llmLoading"
    /\ Goto(i, "ready")
    /\ UNCHANGED <<browser, llmBrowser, llmPage, launched, ask, pages, solverVars, serverVars, toolVars>>

\* askClaude after await initializeLLM(): maxRetries, then the first pass of
\* for (let attempt = 1; attempt <= maxRetries; attempt++) up to its await.
\* The loop body is entered at once, maxRetries being at least 1.
AskLoop(i) ==
    /\ callers[i].at = "ready"
    /\ ask' = [ask EXCEPT !.maxRetries = MaxRetriesOf(ask.option), !.attempt = 1]
    /\ Goto(i, "evaluate")
    /\ UNCHANGED <<browser, llmBrowser, llmPage, launched, pages, solverVars, serverVars, toolVars>>

\* What follows a failed call, from the else branch (whose throw the catch
\* receives) or from the catch: the wait, or the error leaves askClaude.
AfterFailure(i, outcome) ==
    /\ IF HasRetry(ask.attempt, ask.maxRetries)
       THEN /\ ask' = [ask EXCEPT !.calls = Append(@, outcome),
                                  !.waits = Append(@, Delay(ask.attempt))]
            /\ Goto(i, "wait")
       ELSE /\ ask' = [ask EXCEPT !.calls = Append(@, outcome)]
            /\ Goto(i, "raised")
    /\ UNCHANGED <<browser, llmBrowser, llmPage, launched, pages, solverVars, serverVars, toolVars>>

\* llmPage.evaluate resolves with {success: true, text}: return response.text
EvaluateOk(i) ==
    /\ callers[i].at = "evaluate"
    /\ Truthy(llmPage)
    /\ ask' = [ask EXCEPT !.calls = Append(@, "ok")]
    /\ Goto(i, "returned")
    /\ UNCHANGED <<browser, llmBrowser, llmPage, launched, pages, solverVars, serverVars, toolVars>>

\* llmPage.evaluate resolves with {success: false, error}
EvaluateError(i) ==
    /\ callers[i].at = "evaluate"
    /\ Truthy(llmPage)
    /\ AfterFailure(i, "error")

\* llmPage.evaluate throws or rejects; it always does while llmPage is null.
EvaluateThrow(i) ==
    /\ callers[i].at = "evaluate"
    /\ AfterFailure(i, "thrown")

\* The delay is over: attempt++, and the loop condition decides between the
\* next call and falling out of the loop, which returns undefined.
WaitDone(i) ==
    /\ callers[i].at = "wait"
    /\ ask' = [ask EXCEPT !.attempt = @ + 1]
    /\ Goto(i, IF ask'.attempt <= ask.maxRetries THEN "evaluate" ELSE "returned")
    /\ UNCHANGED <<browser, llmBrowser, llmPage, launched, pages, solverVars, serverVars, toolVars>>

\* The solver's variables while no chain is followed.
SolverIdle ==
    /\ pc = "client"
    /\ currentUrl = Null
    /\ attemptCount = 0
    /\ now = 0
    /\ quizUrl = Null
    /\ nFiles = 0
    /\ submitUrl = Null
    /\ fileIdx = 0
    /\ inflight = {}
    /\ result = NoResult
    /\ endReason = "none"
    /\ solverCalls = 0
    /\ attempted = {}
    /\ repeated = FALSE
    /\ att = NewAttempt
    /\ completion = <<>>
    /\ answer = NoAnswer
    /\ fileInfo = Null
    /\ fileType = Null
    /\ processedData = Null
    /\ prompt = <<>>
    /\ request = Null
    /\ responses = <<>>
    /\ incoming = NoIncoming

\* ---------------------------------------------------------------- Init
Init ==
    /\ pc = "loop"
    /\ currentUrl \in URLs
    /\ request = Null
    /\ responses = <<200>>
    /\ incoming = NoIncoming
    /\ chains = <<>>
    /\ ClientIdle
    /\ ToolsIdle
    /\ attemptCount = 0
    /\ now \in 0..MaxNow
    /\ quizUrl = Null
    /\ nFiles = 0
    /\ submitUrl = Null
    /\ fileIdx = 0
    /\ inflight = {}
    /\ result = NoResult
    /\ endReason = "none"
    /\ solverCalls = 0
    /\ attempted = {}
    /\ repeated = FALSE
    /\ att = NewAttempt
    /\ completion = <<>>
    /\ answer = NoAnswer
    /\ fileInfo = Null
    /\ fileType = Null
    /\ processedData = Null
    /\ prompt = <<>>

\* ---------------------------------------------------------------- actions
\* The while condition is false: the loop is left.
LoopExit ==
    /\ UNCHANGED <<serverVars, clientVars, toolVars>>
    /\ pc = "loop"
    /\ ~LoopCondition(currentUrl, attemptCount)
    /\ pc' = "done"
    /\ endReason' = IF Truthy(currentUrl) THEN "cap" ELSE "nourl"
    /\ UNCHANGED <<currentUrl, attemptCount, now, quizUrl, nFiles, submitUrl, fileIdx,
                   inflight, result, solverCalls, attempted, repeated, att, llmVars, fileVars>>

\* An iteration that finds less than the margin left: break.
DeadlineStop ==
    /\ UNCHANGED <<serverVars, clientVars, toolVars>>
    /\ pc = "loop"
    /\ LoopCondition(currentUrl, attemptCount)
    /\ attemptCount' = NextAttemptCount(attemptCount)
    /\ TimeExceeded(Remaining(now))
    /\ pc' = "done"
    /\ endReason' = "deadline"
    /\ UNCHANGED <<currentUrl, now, quizUrl, nFiles, submitUrl, fileIdx,
                   inflight, result, solverCalls, attempted, repeated, att, llmVars, fileVars>>

\* An iteration that invokes solveSingleQuiz, which runs up to its first await,
\* extractQuizFromPage(quizUrl).
StartAttempt ==
    /\ UNCHANGED <<serverVars, clientVars, toolVars>>
    /\ pc = "loop"
    /\ LoopCondition(currentUrl, attemptCount)
    /\ attemptCount' = NextAttemptCount(attemptCount)
    /\ ~TimeExceeded(Remaining(now))
    /\ quizUrl' = currentUrl
    /\ solverCalls' = IF solverCalls < CallsCap THEN solverCalls + 1 ELSE CallsCap
    /\ repeated' = (repeated \/ currentUrl \in attempted)
    /\ attempted' = IF repeated' THEN {} ELSE attempted \cup {currentUrl}
    /\ result' = NoResult
    /\ att' = NewAttempt
    /\ completion' = <<>>
    /\ answer' = NoAnswer
    /\ nFiles' = 0
    /\ submitUrl' = Null
    /\ fileIdx' = 0
    /\ pc' = "fetch"
    /\ inflight' = inflight \cup {<<"fetch", currentUrl>>}
    /\ UNCHANGED <<currentUrl, now, endReason, fileVars>>

\* extractQuizFromPage throws: catch of solveSingleQuiz returns {success:false, error}.
FetchFail ==
    /\ UNCHANGED <<serverVars, clientVars, toolVars>>
    /\ pc = "fetch"
    /\ <<"fetch", quizUrl>> \in inflight
    /\ Resolve(ErrorResult, [att EXCEPT !.fetch = "failed"],
               inflight \ {<<"fetch", quizUrl>>})
    /\ UNCHANGED <<chainVars, now, quizUrl>>

\* extractQuizFromPage returns quizData; solveQuizQuestion starts.
FetchOk ==
    /\ UNCHANGED <<serverVars, clientVars, toolVars>>
    /\ pc = "fetch"
    /\ <<"fetch", quizUrl>> \in inflight
    /\ \E n \in 0..MaxFiles, s \in {Null, SubmitUrl} :
          /\ nFiles' = n
          /\ submitUrl' = s
          /\ FileLoop(1, n, [att EXCEPT !.fetch = "ok"],
                      inflight \ {<<"fetch", quizUrl>>})
    /\ UNCHANGED <<chainVars, now, quizUrl, result, llmVars>>

\* downloadFile throws.
DownloadFail ==
    /\ UNCHANGED <<serverVars, clientVars, toolVars>>
    /\ pc = "download"
    /\ <<"download", fileIdx>> \in inflight
    /\ FileFailed(att, inflight \ {<<"download", fileIdx>>})
    /\ UNCHANGED <<chainVars, pageVars, now, quizUrl, result, llmVars>>

\* downloadFile returns; detectFileType picks the processor.  The tag is drawn
\* here: each file is classified at most once in an attempt.
DownloadOk ==
    /\ UNCHANGED <<serverVars, clientVars, toolVars>>
    /\ pc = "download"
    /\ <<"download", fileIdx>> \in inflight
    /\ LET fl == inflight \ {<<"download", fileIdx>>} IN
       \E f \in SampleFiles :
          LET t == DetectFileType(f.url, f.text) IN
          IF t \in AsyncTypes
          THEN /\ pc' = "extract"
               /\ inflight' = fl \cup ExtractorCalls(t)
               /\ fileInfo' = f
               /\ fileType' = t
               /\ processedData' = Null
               /\ prompt' = <<>>
               /\ UNCHANGED <<fileIdx, att>>
          ELSE IF t = "json"
          THEN \E parses \in BOOLEAN :      \* JSON.parse(fileData.toString())
                  IF parses
                  THEN FileExtracted(f, t, ParsedJson, fl)
                  ELSE FileFailed(att, fl)
          ELSE FileExtracted(f, t, DecodedText, fl)     \* fileData.toString()
    /\ UNCHANGED <<chainVars, pageVars, now, quizUrl, result, llmVars>>

\* the awaited processor (processCSV, processPDF, ...) returns.
ExtractOk ==
    /\ UNCHANGED <<serverVars, clientVars, toolVars>>
    /\ pc = "extract"
    /\ \E c \in inflight :
          /\ c[1] = "extract"
          /\ FileExtracted(fileInfo, fileType, Output(c[2]), inflight \ {c})
    /\ UNCHANGED <<chainVars, pageVars, now, quizUrl, result, llmVars>>

\* the awaited processor throws.
ExtractFail ==
    /\ UNCHANGED <<serverVars, clientVars, toolVars>>
    /\ pc = "extract"
    /\ \E c \in inflight :
          /\ c[1] = "extract"
          /\ FileFailed(att, inflight \ {c})
    /\ UNCHANGED <<chainVars, pageVars, now, quizUrl, result, llmVars>>

\* askClaude(analysisPrompt) settles: a completion (ok) or a throw.
AskFileReturn ==
    /\ UNCHANGED <<serverVars, clientVars, toolVars>>
    /\ pc = "askFile"
    /\ <<"llm", "file">> \in inflight
    /\ LET fl == inflight \ {<<"llm", "file">>} IN
       \E ok \in BOOLEAN :
          LET a == [att EXCEPT !.fileAnswered = ok] IN
          /\ IF ok
             THEN \E raw \in Completions :
                     /\ completion' = raw
                     /\ answer' = ParseAnswer(raw)
             ELSE UNCHANGED llmVars
          /\ IF ReturnsAfterFileQuery(ok) THEN Submit(a, answer', fl) ELSE FileFailed(a, fl)
    /\ UNCHANGED <<chainVars, pageVars, now, quizUrl, result>>

\* askClaude(directPrompt) returns a completion.
AskDirectOk ==
    /\ UNCHANGED <<serverVars, clientVars, toolVars>>
    /\ pc = "askDirect"
    /\ <<"llm", "direct">> \in inflight
    /\ \E raw \in Completions :
          /\ completion' = raw
          /\ answer' = ParseAnswer(raw)
    /\ Submit(att, answer', inflight \ {<<"llm", "direct">>})
    /\ UNCHANGED <<chainVars, pageVars, now, quizUrl, result>>

\* askClaude(directPrompt) throws: rethrown by solveQuizQuestion, caught by
\* solveSingleQuiz.
AskDirectFail ==
    /\ UNCHANGED <<serverVars, clientVars, toolVars>>
    /\ pc = "askDirect"
    /\ <<"llm", "direct">> \in inflight
    /\ Resolve(ErrorResult, att, inflight \ {<<"llm", "direct">>})
    /\ UNCHANGED <<chainVars, now, quizUrl>>

\* What solveSingleQuiz returns once submitAnswer has settled with sub: the
\* remapped body, or the error result when submitAnswer threw.
AfterSubmit(sub) == IF sub.thrown THEN ErrorResult ELSE SolveSingleResult(sub.data)

\* axios.post answers with a body: response.data of a 2xx response, or
\* error.response.data of an error status.
SubmitBody ==
    /\ UNCHANGED <<serverVars, clientVars, toolVars>>
    /\ pc = "submit"
    /\ <<"submit", submitUrl>> \in inflight
    /\ Truthy(submitUrl)
    /\ \E status \in {"2xx", "error"}, body \in Bodies :
          Resolve(AfterSubmit(SubmitAnswerResult(status, body)),
                  [att EXCEPT !.submit = status, !.body = body],
                  inflight \ {<<"submit", submitUrl>>})
    /\ UNCHANGED <<chainVars, now, quizUrl>>

\* axios.post fails with no response (no submission URL, network error):
\* submitAnswer rethrows, solveSingleQuiz returns {success:false, error}.
SubmitThrow ==
    /\ UNCHANGED <<serverVars, clientVars, toolVars>>
    /\ pc = "submit"
    /\ <<"submit", submitUrl>> \in inflight
    /\ Resolve(AfterSubmit(SubmitAnswerResult("none", Null)),
               [att EXCEPT !.submit = "throw"],
               inflight \ {<<"submit", submitUrl>>})
    /\ UNCHANGED <<chainVars, now, quizUrl>>

\* solveMasterQuiz after its await: the if/else on result, then either break
\* or the next evaluation of the while condition.
MasterResume ==
    /\ UNCHANGED <<serverVars, clientVars, toolVars>>
    /\ pc = "resume"
    /\ LET nx == MasterNext(result, currentUrl) IN
          /\ currentUrl' = nx.url
          /\ pc' = IF nx.brk THEN "done" ELSE "loop"
          /\ endReason' = nx.reason
    /\ UNCHANGED <<attemptCount, now, quizUrl, nFiles, submitUrl, fileIdx, inflight,
                   result, solverCalls, attempted, repeated, att, llmVars, fileVars>>

\* Time passes while the code is suspended on a call.
ClockTick ==
    /\ UNCHANGED <<serverVars, clientVars, toolVars>>
    /\ inflight # {}
    /\ now < MaxNow
    /\ now' = now + 1
    /\ UNCHANGED <<pc, currentUrl, attemptCount, quizUrl, nFiles, submitUrl, fileIdx,
                   inflight, result, endReason, solverCalls, attempted, repeated, att, llmVars, fileVars>>

Step ==
    \/ LoopExit
    \/ DeadlineStop
    \/ StartAttempt
    \/ FetchFail
    \/ FetchOk
    \/ DownloadFail
    \/ DownloadOk
    \/ ExtractOk
    \/ ExtractFail
    \/ AskFileReturn
    \/ AskDirectOk
    \/ AskDirectFail
    \/ SubmitBody
    \/ SubmitThrow
    \/ MasterResume

Next == Step \/ ClockTick

Spec == Init /\ [][Next]_vars

\* Every collaborator call settles and the code runs when it can.
LiveSpec == Spec /\ WF_vars(Step)

\* ------------------------------------------------- parseAnswer on its own
\* parseAnswer is a pure function of the completion: it is applied once to
\* every completion of at most MaxLen pieces, outside any chain.
RawAnswers == UNION {[1..n -> Pieces] : n \in 0..MaxLen}

ParseInit ==
    /\ pc = "parse"
    /\ request = Null
    /\ responses = <<>>
    /\ incoming = NoIncoming
    /\ chains = <<>>
    /\ ClientIdle
    /\ ToolsIdle
    /\ completion \in RawAnswers
    /\ answer = NoAnswer
    /\ currentUrl = Null
    /\ attemptCount = 0
    /\ now = 0
    /\ quizUrl = Null
    /\ nFiles = 0
    /\ submitUrl = Null
    /\ fileIdx = 0
    /\ inflight = {}
    /\ result = NoResult
    /\ endReason = "none"
    /\ solverCalls = 0
    /\ attempted = {}
    /\ repeated = FALSE
    /\ att = NewAttempt
    /\ fileInfo = Null
    /\ fileType = Null
    /\ processedData = Null
    /\ prompt = <<>>

\* parseAnswer(rawAnswer) returns.
ParseCall ==
    /\ UNCHANGED <<serverVars, clientVars, toolVars>>
    /\ pc = "parse"
    /\ answer' = ParseAnswer(completion)
    /\ pc' = "parsed"
    /\ UNCHANGED <<chainVars, pageVars, completion, now, quizUrl, fileIdx, inflight,
                   result, att, fileVars>>

ParseSpec == ParseInit /\ [][ParseCall]_vars

\* ----------------------------------------------- detectFileType on its own
\* detectFileType is a pure function of the file link: it is applied once to
\* every link whose URL and text have at most MaxName pieces together.
Names == UNION {[1..n -> NamePieces] : n \in 0..MaxName}

DetectInit ==
    /\ pc = "detect"
    /\ request = Null
    /\ responses = <<>>
    /\ incoming = NoIncoming
    /\ chains = <<>>
    /\ ClientIdle
    /\ ToolsIdle
    /\ \E s \in Names, k \in 0..MaxName :
          /\ k <= Len(s)
          /\ fileInfo = FileInfo(SubSeq(s, 1, k), SubSeq(s, k + 1, Len(s)))
    /\ fileType = Null
    /\ processedData = Null
    /\ prompt = <<>>
    /\ completion = <<>>
    /\ answer = NoAnswer
    /\ currentUrl = Null
    /\ attemptCount = 0
    /\ now = 0
    /\ quizUrl = Null
    /\ nFiles = 0
    /\ submitUrl = Null
    /\ fileIdx = 0
    /\ inflight = {}
    /\ result = NoResult
    /\ endReason = "none"
    /\ solverCalls = 0
    /\ attempted = {}
    /\ repeated = FALSE
    /\ att = NewAttempt

\* detectFileType(fileInfo.url, fileInfo.text) returns.
DetectCall ==
    /\ UNCHANGED <<serverVars, clientVars, toolVars>>
    /\ pc = "detect"
    /\ fileType' = DetectFileType(fileInfo.url, fileInfo.text)
    /\ pc' = "detected"
    /\ UNCHANGED <<chainVars, pageVars, llmVars, now, quizUrl, fileIdx, inflight,
                   result, att, fileInfo, processedData, prompt>>

DetectSpec == DetectInit /\ [][DetectCall]_vars


\* ------------------------------------------------------ the server's handler
\* One POST /solve arrives; startTime is taken as the handler starts.
ServerInit ==
    /\ pc = "received"
    /\ incoming \in Incoming
    /\ chains = <<>>
    /\ request = Null
    /\ responses = <<>>
    /\ ClientIdle
    /\ ToolsIdle
    /\ currentUrl = Null
    /\ attemptCount = 0
    /\ now = 0
    /\ quizUrl = Null
    /\ nFiles = 0
    /\ submitUrl = Null
    /\ fileIdx = 0
    /\ inflight = {}
    /\ result = NoResult
    /\ endReason = "none"
    /\ solverCalls = 0
    /\ attempted = {}
    /\ repeated = FALSE
    /\ att = NewAttempt
    /\ completion = <<>>
    /\ answer = NoAnswer
    /\ fileInfo = Null
    /\ fileType = Null
    /\ processedData = Null
    /\ prompt = <<>>

\* The body-parsing middleware runs: it sets req.body and calls the handler,
\* or it calls next(err) and the error-handling middleware answers.
ParseBody ==
    /\ pc = "received"
    /\ LET parsed == BodyParsers(incoming) IN
          IF parsed.error
          THEN /\ responses' = Append(responses, ErrorMiddlewareStatus)
               /\ pc' = "answered"
               /\ incoming' = NoIncoming
               /\ UNCHANGED request
          ELSE /\ request' \in parsed.bodies
               /\ pc' = "request"
               /\ UNCHANGED <<responses, incoming>>
    /\ UNCHANGED <<chains, currentUrl, attemptCount, now, quizUrl, nFiles, submitUrl, fileIdx,
                   inflight, result, endReason, solverCalls, attempted, repeated, att,
                   llmVars, fileVars, clientVars, toolVars>>

\* The handler runs and returns: an early return with 400 or 403, or the 200
\* response followed by the call of solveMasterQuiz with initialUrl = url.
PostSolve ==
    /\ pc = "request"
    /\ LET o == PostSolveOutcome(request) IN
          /\ responses' = responses \o o.sent
          /\ pc' = IF o.chain THEN "loop" ELSE "answered"
          /\ currentUrl' = IF o.chain THEN request.url ELSE currentUrl
    /\ request' = Null
    /\ incoming' = NoIncoming
    /\ UNCHANGED <<chains, attemptCount, now, quizUrl, nFiles, submitUrl, fileIdx, inflight,
                   result, endReason, solverCalls, attempted, repeated, att, llmVars,
                   fileVars, clientVars, toolVars>>

ServerNext == ParseBody \/ PostSolve \/ Step \/ ClockTick

ServerSpec == ServerInit /\ [][ServerNext]_vars


\* --------------------------------------------------- askClaude on its own
\* One askClaude(prompt, options) invocation, with options.maxRetries absent
\* or up to MaxOption, in a process where the LLM client is not initialised
\* yet, is initialised, or was left with a browser and no page by an earlier
\* initializeLLM whose newPage failed.
AskInit ==
    /\ SolverIdle
    /\ ToolsIdle
    /\ chains = <<>>
    /\ browser = Null
    /\ \E n \in 0..1, p \in BOOLEAN :
          /\ launched = [browser |-> 0, llm |-> n]
          /\ llmBrowser = IF n = 0 THEN Null ELSE Browser(n)
          /\ llmPage = IF n = 0 \/ ~p THEN Null ELSE PageOf(Browser(n))
    /\ callers = <<Caller("askClaude")>>
    /\ pages = {}
    /\ ask \in {NewAsk(o) : o \in Options}

AskNext ==
    \E i \in DOMAIN callers :
       \/ InitializeLLM(i)
       \/ LlmLaunched(i)
       \/ LlmLaunchFail(i)
       \/ LlmPageOpened(i)
       \/ LlmPageFail(i)
       \/ LlmLoaded(i)
       \/ AskLoop(i)
       \/ EvaluateOk(i)
       \/ EvaluateError(i)
       \/ EvaluateThrow(i)
       \/ WaitDone(i)

AskSpec == AskInit /\ [][AskNext]_vars

\* ------------------------------------------ concurrent chains' first calls
\* NumChains chains run in one process, each from its first getBrowser call
\* (in extractQuizFromPage) to the return of its first initializeLLM.
LaunchInit ==
    /\ SolverIdle
    /\ ToolsIdle
    /\ chains = <<>>
    /\ browser = Null
    /\ llmBrowser = Null
    /\ llmPage = Null
    /\ launched = [browser |-> 0, llm |-> 0]
    /\ callers = [i \in 1..NumChains |-> Caller("start")]
    /\ pages = {}
    /\ ask = NoAsk

LaunchNext ==
    \E i \in DOMAIN callers :
       \/ GetBrowser(i)
       \/ BrowserLaunched(i)
       \/ BrowserLaunchFail(i)
       \/ NewPageOk(i)
       \/ NewPageFail(i)
       \/ Navigated(i)
       \/ NavigationFail(i)
       \/ Evaluated(i)
       \/ EvaluationFail(i)
       \/ PageClosed(i)
       \/ InitializeLLM(i)
       \/ LlmLaunched(i)
       \/ LlmLaunchFail(i)
       \/ LlmPageOpened(i)
       \/ LlmPageFail(i)
       \/ LlmLoaded(i)

LaunchSpec == LaunchInit /\ [][LaunchNext]_vars


\* ------------------------------------------------- concurrent master loops
\* NumChains solveMasterQuiz invocations run in the process at once. Each has
\* its own currentUrl and attemptCount; what solveSingleQuiz does between its
\* call and its return is left out, only the result it resolves with counts.
\* Two more fields keep the history of a chain: the URL it was started on
\* and the nextUrl of the latest result.
NewChain(url) ==
    [at |-> "loop", currentUrl |-> url, attemptCount |-> 0,
     initialUrl |-> url, lastNext |-> Null]

\* Mutant of Locals: currentUrl is one variable of the module, which every
\* chain assigns and reads.
LocalsSharedUrl(chs, i, c) ==
    [j \in DOMAIN chs |-> IF j = i THEN c ELSE [chs[j] EXCEPT !.currentUrl = c.currentUrl]]

\* let currentUrl, let attemptCount: locals of one solveMasterQuiz invocation;
\* an assignment by chain i reaches the locals of chain i only.
Locals(chs, i, c) == [chs EXCEPT ![i] = c]

\* The results solveSingleQuiz can resolve with; the grading server names a
\* next URL to a chain MaxHops times at most.
ChainResults(c) ==
    {ErrorResult} \cup
    {Result(ok, n) : ok \in BOOLEAN,
                     n \in IF c.attemptCount <= MaxHops THEN URLs \cup {Null} ELSE {Null}}

ChainsInit ==
    /\ SolverIdle
    /\ ClientIdle
    /\ ToolsIdle
    /\ chains \in [1..NumChains -> {NewChain(u) : u \in URLs}]

\* One evaluation of the while condition and, when it holds, the iteration up
\* to its break on the deadline or to the call of solveSingleQuiz. Date.now()
\* is read as any instant up to MaxNow ticks after startTime.
ChainIterate(i) ==
    /\ chains[i].at = "loop"
    /\ LET c == chains[i] IN
          IF ~LoopCondition(c.currentUrl, c.attemptCount)
          THEN chains' = Locals(chains, i, [c EXCEPT !.at = "done"])
          ELSE \E t \in 0..MaxNow :
                  chains' = Locals(chains, i,
                     IF TimeExceeded(Remaining(t))
                     THEN [c EXCEPT !.attemptCount = NextAttemptCount(c.attemptCount),
                                    !.at = "done"]
                     ELSE [c EXCEPT !.attemptCount = NextAttemptCount(c.attemptCount),
                                    !.at = "await"])
    /\ UNCHANGED <<solverVars, clientVars, toolVars, request, responses, incoming>>

\* solveSingleQuiz resolves and the loop body goes on after its await.
ChainResume(i) ==
    /\ chains[i].at = "await"
    /\ LET c == chains[i] IN
       \E r \in ChainResults(c) :
          LET nx == MasterNext(r, c.currentUrl) IN
             chains' = Locals(chains, i,
                [c EXCEPT !.currentUrl = nx.url,
                          !.at = IF nx.brk THEN "done" ELSE "loop",
                          !.lastNext = r.nextUrl])
    /\ UNCHANGED <<solverVars, clientVars, toolVars, request, responses, incoming>>

ChainsNext == \E i \in DOMAIN chains : ChainIterate(i) \/ ChainResume(i)

ChainsSpec == ChainsInit /\ [][ChainsNext]_vars


\* ------------------------------------------------------------- processors
\* processPDF, processVideo and processAudio, one invocation per chain that
\* is processing a file. Each await is a position of the invocation.

\* if (pdfData.text && pdfData.text.trim().length > 100)
MinTextLength == 100

\* A text as pdf-parse returns it: outer blanks at its ends, nonBlank
\* characters, and inner blanks between them.
SampleTexts ==
    {t \in [nonBlank : {0, 60, 100, 101}, inner : {0, 50}, outer : {0, 50}] :
        t.inner > 0 => t.nonBlank >= 2}

\* text.length
TextLength(t) == t.nonBlank + t.inner + t.outer

\* text.trim().length: trim removes the blanks at the two ends only.
TrimLength(t) == IF t.nonBlank = 0 THEN 0 ELSE t.nonBlank + t.inner

\* The test that makes processPDF return the extracted text.
Substantial(t) == TextLength(t) > 0 /\ TrimLength(t) > MinTextLength

NoText == [nonBlank |-> 0, inner |-> 0, outer |-> 0]

Processors == {"processPDF", "processVideo", "processAudio"}

\* The first await of each processor.
FirstAwait(fn) == IF fn = "processPDF" THEN "pdfParse" ELSE "writeFile"

\* The locals of one invocation: the await it is suspended on, the text
\* pdf-parse gave, askClaudeWithPDF calls made, the error the outer catch
\* holds, the method of the value returned, the error thrown, and whether
\* fs.writeFile created the temp file.
NewProc(fn) ==
    [fn |-> fn, at |-> FirstAwait(fn), text |-> NoText, parsed |-> FALSE,
     llmCalls |-> 0, error |-> "none", method |-> "none", thrown |-> "none",
     wrote |-> FALSE]

\* path.join(os.tmpdir(), `video_${Date.now()}.mp4`), `audio_${Date.now()}.mp3`;
\* the Date.now() values of concurrent invocations are taken to differ.
TempFile(i) == <<IF proc[i].fn = "processVideo" THEN "video" ELSE "audio", i>>

\* Mutant of ThrownAfterFallback: the fallback's error is thrown.
ThrownAfterFallbackOwn(error, fallbackError) == fallbackError

\* catch (fallbackError) { ...; throw error; }
ThrownAfterFallback(error, fallbackError) == error

Settle(i, p) ==
    /\ proc' = [proc EXCEPT ![i] = p]
    /\ UNCHANGED <<tmpdir, downloads, transform, solverVars, serverVars, clientVars>>

\* await fs.writeFile(tempFile, buffer) resolves.
WriteFileOk(i) ==
    /\ proc[i].at = "writeFile"
    /\ tmpdir' = tmpdir \cup {TempFile(i)}
    /\ proc' = [proc EXCEPT ![i] = [@ EXCEPT !.wrote = TRUE,
                   !.at = IF proc[i].fn = "processVideo" THEN "askClaude" ELSE "transcribeAudio"]]
    /\ UNCHANGED <<downloads, transform, solverVars, serverVars, clientVars>>

\* fs.writeFile rejects: the outer catch logs and rethrows.
WriteFileFail(i) ==
    /\ proc[i].at = "writeFile"
    /\ Settle(i, [proc[i] EXCEPT !.at = "raised", !.thrown = "writeFile"])

\* processVideo: const guidance = await askClaude(prompt) resolves.
GuidanceOk(i) ==
    /\ proc[i].at = "askClaude"
    /\ Settle(i, [proc[i] EXCEPT !.at = "unlink", !.llmCalls = @ + 1])

\* processVideo: askClaude rejects; control passes to the outer catch, which
\* logs and rethrows.
GuidanceFail(i) ==
    /\ proc[i].at = "askClaude"
    /\ Settle(i, [proc[i] EXCEPT !.at = "raised", !.llmCalls = @ + 1,
                                 !.thrown = "askClaude"])

\* processAudio: transcription = await transcribeAudio(buffer), whose
\* rejection the inner catch turns into a warning; either way the cleanup
\* follows.
Transcribed(i) ==
    /\ proc[i].at = "transcribeAudio"
    /\ \E ok \in BOOLEAN :
          Settle(i, [proc[i] EXCEPT !.at = "unlink", !.llmCalls = @ + 1,
                        !.method = IF ok THEN "guidance" ELSE "none"])

\* try { await fs.unlink(tempFile) } resolves, then the processor returns.
UnlinkOk(i) ==
    /\ proc[i].at = "unlink"
    /\ tmpdir' = tmpdir \ {TempFile(i)}
    /\ proc' = [proc EXCEPT ![i].at = "returned"]
    /\ UNCHANGED <<downloads, transform, solverVars, serverVars, clientVars>>

\* fs.unlink rejects: catch (e) {} ignores it, then the processor returns.
UnlinkFail(i) ==
    /\ proc[i].at = "unlink"
    /\ Settle(i, [proc[i] EXCEPT !.at = "returned"])

\* processPDF: const pdfData = await pdfParse(buffer) resolves; a
\* substantial text is returned, otherwise askClaudeWithPDF is called.
PdfParsed(i) ==
    /\ proc[i].at = "pdfParse"
    /\ \E t \in SampleTexts :
          Settle(i, IF Substantial(t)
                    THEN [proc[i] EXCEPT !.text = t, !.parsed = TRUE, !.at = "returned",
                                         !.method = "text-extraction"]
                    ELSE [proc[i] EXCEPT !.text = t, !.parsed = TRUE, !.at = "vision"])

\* pdfParse rejects: the outer catch starts the fallback.
PdfParseFail(i) ==
    /\ proc[i].at = "pdfParse"
    /\ Settle(i, [proc[i] EXCEPT !.at = "fallback", !.error = "pdfParse"])

\* The first askClaudeWithPDF resolves.
VisionOk(i) ==
    /\ proc[i].at = "vision"
    /\ Settle(i, [proc[i] EXCEPT !.at = "returned", !.llmCalls = @ + 1,
                                 !.method = "claude-vision"])

\* The first askClaudeWithPDF rejects: the outer catch starts the fallback.
VisionFail(i) ==
    /\ proc[i].at = "vision"
    /\ Settle(i, [proc[i] EXCEPT !.at = "fallback", !.llmCalls = @ + 1,
                                 !.error = "vision"])

\* The askClaudeWithPDF of the catch block resolves.
FallbackOk(i) ==
    /\ proc[i].at = "fallback"
    /\ Settle(i, [proc[i] EXCEPT !.at = "returned", !.llmCalls = @ + 1,
                                 !.method = "claude-fallback"])

\* The askClaudeWithPDF of the catch block rejects.
FallbackFail(i) ==
    /\ proc[i].at = "fallback"
    /\ Settle(i, [proc[i] EXCEPT !.at = "raised", !.llmCalls = @ + 1,
                     !.thrown = ThrownAfterFallback(proc[i].error, "fallback")])

ProcInit ==
    /\ SolverIdle
    /\ ClientIdle
    /\ chains = <<>>
    /\ proc \in [1..NumChains -> {NewProc(fn) : fn \in Processors}]
    /\ tmpdir = {}
    /\ downloads = <<>>
    /\ transform = NoTransform

ProcNext ==
    \E i \in DOMAIN proc :
       \/ WriteFileOk(i)
       \/ WriteFileFail(i)
       \/ GuidanceOk(i)
       \/ GuidanceFail(i)
       \/ Transcribed(i)
       \/ UnlinkOk(i)
       \/ UnlinkFail(i)
       \/ PdfParsed(i)
       \/ PdfParseFail(i)
       \/ VisionOk(i)
       \/ VisionFail(i)
       \/ FallbackOk(i)
       \/ FallbackFail(i)

ProcSpec == ProcInit /\ [][ProcNext]_vars


\* -------------------------------------------------------- downloadMultiple
\* Two downloadMultiple invocations on the same URL list, the second one
\* with parallel: false; each download settles as the network decides, in
\* any order.

\* options.parallel as the caller gave it: absent, true or false.
ParallelOptions == {<<>>, <<TRUE>>, <<FALSE>>}

\* const parallel = options.parallel !== false
Parallel(option) == option # <<FALSE>>

\* What downloadFile resolves with.
Downloaded(url) == [buffer |-> <<"buffer", url>>]

\* ({ error: error.message, url: url })
Failure(url) == [error |-> ErrorMessage, url |-> url]

\* The locals of one invocation: pending are the downloadFile calls not yet
\* settled, settled the values the promises of the parallel branch resolved
\* with, order the order they settled in, next the position of the for-of
\* loop, outcomes what the network did with each download.
NewDownload(urls, option) ==
    [urls |-> urls, option |-> option, at |-> "start", pending |-> {},
     settled |-> <<>>, order |-> <<>>, next |-> 1, results |-> <<>>,
     outcomes |-> [j \in 1..Len(urls) |-> "pending"]]

\* Mutant of PromiseAll: the values in the order the promises settled.
PromiseAllSettleOrder(d) == [j \in 1..Len(d.urls) |-> d.settled[d.order[j]]]

\* await Promise.all(promises): the values in the order of the promises.
PromiseAll(d) == [j \in 1..Len(d.urls) |-> d.settled[j]]

DownloadFrame == UNCHANGED <<procVars, transform, solverVars, serverVars, clientVars>>

\* The parallel branch: urls.map starts every download, each with its catch.
MapDownloads(k) ==
    /\ downloads[k].at = "start"
    /\ Parallel(downloads[k].option)
    /\ downloads' = [downloads EXCEPT ![k] =
          [@ EXCEPT !.at = "awaitAll", !.pending = 1..Len(downloads[k].urls)]]
    /\ DownloadFrame

\* The sequential branch: the for-of loop calls downloadFile on the next
\* URL, or ends and the results are returned.
NextDownload(k) ==
    LET d == downloads[k]
    IN /\ \/ d.at = "start" /\ ~Parallel(d.option)
          \/ d.at = "loop"
       /\ downloads' = [downloads EXCEPT ![k] =
             IF d.next <= Len(d.urls)
             THEN [d EXCEPT !.at = "awaitOne", !.pending = {d.next}]
             ELSE [d EXCEPT !.at = "returned"]]
       /\ DownloadFrame

\* One downloadFile settles. In the parallel branch its promise resolves
\* with the file or, through .catch, with the failure record; in the
\* sequential branch the value or the catch block's record is pushed.
DownloadSettled(k) ==
    LET d == downloads[k]
    IN \E j \in d.pending, ok \in BOOLEAN :
          LET r == IF ok THEN Downloaded(d.urls[j]) ELSE Failure(d.urls[j])
              seen == [d EXCEPT !.pending = @ \ {j},
                                !.outcomes[j] = IF ok THEN "ok" ELSE "failed"]
          IN /\ downloads' = [downloads EXCEPT ![k] =
                   IF d.at = "awaitAll"
                   THEN [seen EXCEPT
                           !.settled = [x \in DOMAIN d.settled \cup {j} |->
                                           IF x = j THEN r ELSE d.settled[x]],
                           !.order = Append(@, j)]
                   ELSE [seen EXCEPT !.results = Append(@, r), !.next = @ + 1,
                                     !.at = "loop"]]
             /\ DownloadFrame

\* results.push(...await Promise.all(promises)), then the results are returned.
AllSettled(k) ==
    /\ downloads[k].at = "awaitAll"
    /\ downloads[k].pending = {}
    /\ downloads' = [downloads EXCEPT ![k] =
          [@ EXCEPT !.at = "returned", !.results = PromiseAll(downloads[k])]]
    /\ DownloadFrame

UrlLists == UNION {[1..n -> URLs] : n \in 0..MaxFiles}

DownloadInit ==
    /\ SolverIdle
    /\ ClientIdle
    /\ chains = <<>>
    /\ proc = <<>>
    /\ tmpdir = {}
    /\ transform = NoTransform
    /\ \E urls \in UrlLists, option \in ParallelOptions :
          downloads = <<NewDownload(urls, option), NewDownload(urls, <<FALSE>>)>>

DownloadNext ==
    \E k \in DOMAIN downloads :
       \/ MapDownloads(k)
       \/ NextDownload(k)
       \/ DownloadSettled(k)
       \/ AllSettled(k)

DownloadSpec == DownloadInit /\ [][DownloadNext]_vars


\* ----------------------------------------------------------- transformData
\* One transformData(data, operations) call. The rows of data are objects
\* the caller holds: an element of an intermediate result is either one of
\* them (ref is its index in data), an object made during the call (row), or
\* a primitive value (prim).

MaxRows == 2
MaxOps == 2

Undefined == <<"undefined">>
Num(n) == <<"number", n>>
Str(n) == <<"string", n>>                \* String(n); "undefined" is -1, "null" is -2

EmptyRow == [c \in {} |-> Undefined]

SampleRows ==
    {[k |-> Num(0), v |-> Num(1)], [k |-> Num(1), v |-> Num(0)], [k |-> Num(1), v |-> Num(1)]}

DataSets == UNION {[1..n -> SampleRows] : n \in 0..MaxRows}

\* An operation: field is op.field (the key of op.condition, the only entry
\* of op.columns, the key of op.mapping and of op.operations, op.column), arg
\* is op.order, the new name, op.expression, op.aggregation or the
\* aggregate function, value the value of op.condition.
Op(type, field, arg, value) == [type |-> type, field |-> field, arg |-> arg, value |-> value]

SampleOps ==
    { Op("filter", "k", "", 1),
      Op("sort", "v", "asc", 0),
      Op("sort", "v", "desc", 0),
      Op("select", "k", "", 0),
      Op("rename", "v", "w", 0),
      Op("compute", "c", "v + 1", 0),
      Op("compute", "c", "v = 0", 0),
      Op("group", "k", "count", 0),
      Op("aggregate", "v", "sum", 0),
      Op("pivot", "k", "", 0) }

OpLists == UNION {[1..n -> SampleOps] : n \in 0..MaxOps}

\* The case labels of the switch.
KnownTypes == {"filter", "sort", "group", "aggregate", "select", "rename", "compute"}

Own(row) == [ref |-> 0, row |-> row, prim |-> Undefined]
Prim(value) == [ref |-> 0, row |-> EmptyRow, prim |-> value]
Shared(j) == [ref |-> j, row |-> EmptyRow, prim |-> Undefined]

\* The properties of element e as the operations read them.
RowOf(data, e) == IF e.ref > 0 THEN data[e.ref] ELSE e.row

Has(row, c) == c \in DOMAIN row
Get(row, c) == IF Has(row, c) THEN row[c] ELSE Undefined
With(row, c, value) == [x \in DOMAIN row \cup {c} |-> IF x = c THEN value ELSE row[x]]

\* Mutant of CloneDeep: a new array of the same row objects.
CloneShallow(data) == [shape |-> "array", items |-> [j \in 1..Len(data) |-> Shared(j)]]

\* _.cloneDeep(data): a new array of new row objects.
CloneDeep(data) == [shape |-> "array", items |-> [j \in 1..Len(data) |-> Own(data[j])]]

\* What lodash iterates over: the elements of an array, the property values
\* of an object (aggregateData makes objects of one property).
Collection(res) ==
    IF res.shape = "array" THEN res.items
    ELSE LET obj == res.items[1].row
         IN [p \in 1..Cardinality(DOMAIN obj) |-> Prim(obj[CHOOSE c \in DOMAIN obj : TRUE])]

Array(items) == [shape |-> "array", items |-> items]

\* The state transformData works on: result, the caller's rows, the global
\* variable v, and whether an operation has thrown.
Raise(m) == [m EXCEPT !.raised = TRUE]

\* filterData with an object condition: data.filter(row => row[key] === value)
FilterData(m, key, value) ==
    IF m.result.shape # "array" THEN Raise(m)
    ELSE [m EXCEPT !.result = Array(SelectSeq(m.result.items,
                       LAMBDA e : Get(RowOf(m.data, e), key) = value))]

\* The rank lodash compares by: numbers and numeric strings by value, null
\* after them, undefined last.
SortKey(value) ==
    IF value = Undefined THEN 1000 ELSE IF value = Null THEN 999 ELSE value[2]

\* sortData: _.orderBy(data, [field], [order]), a stable sort.
SortData(m, field, order) ==
    LET items == Collection(m.result)
        n == Len(items)
        key(j) == SortKey(Get(RowOf(m.data, items[j]), field))
        before(a, b) == \/ IF order = "desc" THEN key(a) > key(b) ELSE key(a) < key(b)
                        \/ key(a) = key(b) /\ a < b
        rank(j) == Cardinality({a \in 1..n : before(a, j)}) + 1
    IN [m EXCEPT !.result = Array([p \in 1..n |-> items[CHOOSE j \in 1..n : rank(j) = p]])]

\* String(value), the key _.groupBy files a row under.
KeyString(value) ==
    IF value = Undefined THEN -1 ELSE IF value = Null THEN -2 ELSE value[2]

\* groupData with aggregation 'count': one entry per key, in the order of
\* Object.entries (integer keys ascending, then the others as first met).
GroupData(m, field) ==
    LET items == Collection(m.result)
        n == Len(items)
        key(j) == KeyString(Get(RowOf(m.data, items[j]), field))
        keys == {key(j) : j \in 1..n}
        first(x) == CHOOSE j \in 1..n : key(j) = x /\ \A a \in 1..(j - 1) : key(a) # x
        pos(x) == IF x >= 0 THEN x ELSE 1000 + first(x)
        nth(p) == CHOOSE x \in keys : Cardinality({y \in keys : pos(y) < pos(x)}) = p - 1
        count(x) == Cardinality({j \in 1..n : key(j) = x})
        entry(x) == [c \in {field, "count"} |->
                        IF c = "count" THEN Num(count(x)) ELSE Str(x)]
    IN [m EXCEPT !.result = Array([p \in 1..Cardinality(keys) |-> Own(entry(nth(p)))])]

RECURSIVE SumOf(_, _, _, _)
\* _.sum of the field values that are neither null nor undefined.
SumOf(data, items, field, n) ==
    IF n = 0 THEN 0
    ELSE LET value == Get(RowOf(data, items[n]), field)
         IN SumOf(data, items, field, n - 1)
               + (IF value \in {Undefined, Null} THEN 0 ELSE value[2])

\* aggregateData with {field: 'sum'}: an object with the one property field_sum.
AggregateData(m, field) ==
    IF m.result.shape # "array" THEN Raise(m)
    ELSE LET total == SumOf(m.data, m.result.items, field, Len(m.result.items))
         IN [m EXCEPT !.result = [shape |-> "object",
                  items |-> <<Own([c \in {field \o "_sum"} |-> Num(total)])>>]]

\* selectColumns: data.map(row => _.pick(row, columns))
SelectColumns(m, columns) ==
    IF m.result.shape # "array" THEN Raise(m)
    ELSE [m EXCEPT !.result = Array([j \in 1..Len(m.result.items) |->
             LET row == RowOf(m.data, m.result.items[j])
             IN Own([c \in DOMAIN row \cap columns |-> row[c]])])]

\* renameColumns with mapping {from: to}: newRow[mapping[key] || key] = value
RenameColumns(m, from, to) ==
    IF m.result.shape # "array" THEN Raise(m)
    ELSE [m EXCEPT !.result = Array([j \in 1..Len(m.result.items) |->
             LET row == RowOf(m.data, m.result.items[j])
                 name(c) == IF c = from THEN to ELSE c
             IN Own([d \in {name(c) : c \in DOMAIN row} |->
                       IF d = to /\ Has(row, from) THEN row[from] ELSE row[d]])])]

\* value + 1 in JavaScript.
PlusOne(value) ==
    IF value[1] = "number" THEN Num(value[2] + 1)
    ELSE IF value[1] = "string" THEN Str(10 * value[2] + 1)
    ELSE Num(1)

\* computeColumn with a string expression, run as
\* new Function('row', `with(row) { return ${expression}; }`): "v + 1" reads
\* the row's v, else the global v, else throws a ReferenceError that makes
\* the column null; "v = 0" assigns the row's v, else the global v, and
\* yields 0. newRow = {...row} is copied before the expression runs.
ComputeColumn(m, column, expression) ==
    IF m.result.shape # "array" THEN Raise(m)
    ELSE LET items == m.result.items
             n == Len(items)
             row(j) == RowOf(m.data, items[j])
             assigns == expression = "v = 0"
             value(j) == IF assigns THEN Num(0)
                         ELSE IF Has(row(j), "v") THEN PlusOne(row(j)["v"])
                         ELSE IF m.globalV # Undefined THEN PlusOne(m.globalV)
                         ELSE Null
         IN [m EXCEPT
               !.result = Array([j \in 1..n |-> Own(With(row(j), column, value(j)))]),
               !.data = IF ~assigns THEN @
                        ELSE [a \in 1..Len(@) |->
                                IF Has(@[a], "v") /\ \E j \in 1..n : items[j].ref = a
                                THEN [@[a] EXCEPT !["v"] = Num(0)]
                                ELSE @[a]],
               !.globalV = IF assigns /\ \E j \in 1..n : ~Has(row(j), "v")
                           THEN Num(0) ELSE @]

\* The switch on op.type; the default case warns and changes nothing.
ApplyOp(m, op) ==
    CASE op.type = "filter" -> FilterData(m, op.field, Num(op.value))
      [] op.type = "sort" -> SortData(m, op.field, op.arg)
      [] op.type = "group" -> GroupData(m, op.field)
      [] op.type = "aggregate" -> AggregateData(m, op.field)
      [] op.type = "select" -> SelectColumns(m, {op.field})
      [] op.type = "rename" -> RenameColumns(m, op.field, op.arg)
      [] op.type = "compute" -> ComputeColumn(m, op.field, op.arg)
      [] OTHER -> m

RECURSIVE ApplyAll(_, _, _)
\* The for-of loop up to and including operation n; a throw ends it.
ApplyAll(m, ops, n) ==
    IF n = 0 THEN m
    ELSE LET before == ApplyAll(m, ops, n - 1)
         IN IF before.raised THEN before ELSE ApplyOp(before, ops[n])

\* The operation the loop is at.
OpAt(ops, i) == ops[i]

TransformFrame == UNCHANGED <<procVars, downloads, solverVars, serverVars, clientVars>>

\* let result = _.cloneDeep(data)
CloneData ==
    /\ transform.at = "start"
    /\ transform' = [transform EXCEPT !.at = "loop", !.result = CloneDeep(transform.data)]
    /\ TransformFrame

\* One iteration of for (const op of operations).
ApplyOperation ==
    /\ transform.at = "loop"
    /\ transform.i <= Len(transform.ops)
    /\ LET m == ApplyOp([result |-> transform.result, data |-> transform.data,
                         globalV |-> transform.globalV, raised |-> FALSE],
                        OpAt(transform.ops, transform.i))
       IN transform' = [transform EXCEPT !.result = m.result, !.data = m.data,
                           !.globalV = m.globalV, !.i = @ + 1,
                           !.at = IF m.raised THEN "raised" ELSE "loop"]
    /\ TransformFrame

\* return result
ReturnResult ==
    /\ transform.at = "loop"
    /\ transform.i > Len(transform.ops)
    /\ transform' = [transform EXCEPT !.at = "returned"]
    /\ TransformFrame

TransformInit ==
    /\ SolverIdle
    /\ ClientIdle
    /\ chains = <<>>
    /\ proc = <<>>
    /\ tmpdir = {}
    /\ downloads = <<>>
    /\ \E data \in DataSets, ops \in OpLists :
          transform = [at |-> "start", input |-> data, data |-> data, ops |-> ops,
                       i |-> 1, result |-> Array(<<>>), globalV |-> Undefined]

TransformNext == CloneData \/ ApplyOperation \/ ReturnResult

TransformSpec == TransformInit /\ [][TransformNext]_vars


\* ================================================================ claims
\* Milliseconds left of the budget at the current clock reading.
Left == TIMEOUT_MS - now * Tick

\* C1: solveSingleQuiz is never invoked more than maxAttempts times in a chain,
\* and a chain that is stopped by nothing but the cap (every attempt returned a
\* next URL, no deadline stop) has invoked it exactly maxAttempts times.
C1_AttemptCap ==
    /\ solverCalls <= maxAttempts
    /\ (pc = "done" /\ endReason = "cap")
          => (solverCalls = maxAttempts /\ attemptCount = maxAttempts)

C1_Witness ==
    /\ pc = "done"
    /\ endReason = "cap"
    /\ solverCalls = maxAttempts
    /\ result = Result(TRUE, currentUrl)

\* C2: a chain entered with less than the safety margin left ends in its first
\* iteration by the deadline break: no solver invocation, no call issued (no
\* fetch, no submission), no error; and an ended chain takes no further step.
C2_LateEntry ==
    [][/\ (pc = "loop" /\ attemptCount = 0 /\ Left < SafetyMargin)
            => /\ pc' = "done"
               /\ endReason' = "deadline"
               /\ solverCalls' = 0
               /\ inflight' = {}
               /\ att' = NewAttempt
       /\ pc # "done"]_vars

C2_Witness ==
    /\ pc = "done"
    /\ endReason = "deadline"
    /\ attemptCount = 1
    /\ solverCalls = 0
    /\ attempted = {}

\* C3: every solveSingleQuiz invocation happens at a clock reading that leaves
\* at least the safety margin, and the clock never runs backwards (so once less
\* than the margin is left, no attempt is started any more).
C3_StartWithinBudget ==
    [][/\ (solverCalls' # solverCalls \/ (pc' = "fetch" /\ pc # "fetch"))
            => (Left >= SafetyMargin /\ now' = now)
       /\ now' >= now]_vars

C3_Witness ==
    /\ pc = "done"
    /\ endReason = "deadline"
    /\ solverCalls >= 2
    /\ Left < SafetyMargin

C6_NoUrlTwice == ~repeated

\* C6 as amended: the orchestrator never goes back to a URL on its own: a URL
\* is attempted again only when the result of the immediately preceding attempt
\* named it as the next URL.
C6_RepeatOnlyOnServerNextUrl ==
    [][(pc' = "fetch" /\ pc # "fetch" /\ (repeated \/ currentUrl \in attempted))
          => (result.kind = "value" /\ result.nextUrl = quizUrl')]_vars

C6_Witness ==
    /\ pc = "fetch"
    /\ repeated
    /\ solverCalls = 2
    /\ quizUrl = currentUrl
    /\ result = NoResult

\* C7: every chain ends, by one of four exit paths: success without a next URL,
\* the attempt cap, the deadline, or a failed attempt without a next URL.
C7_Terminates ==
    /\ <>(pc = "done")
    /\ [](pc = "done" => /\ endReason \in {"complete", "cap", "deadline", "failed"}
                         /\ inflight = {})
    /\ [](pc # "done" => endReason = "none")

C7_Witness ==
    /\ pc = "done"
    /\ endReason = "failed"
    /\ solverCalls = 3
    /\ att.fetch = "ok"
    /\ att.submit = "none"

\* C8: at most one collaborator call is outstanding at any time, and it is the
\* one the attempt in progress is suspended on; between attempts none is.
C8_Sequential ==
    /\ Cardinality(inflight) <= 1
    /\ pc \in {"loop", "resume", "done"} => inflight = {}
    /\ pc = "fetch" => inflight = {<<"fetch", quizUrl>>}
    /\ pc = "download" => inflight = {<<"download", fileIdx>>}
    /\ pc = "extract" => \E t \in AsyncTypes : inflight = {<<"extract", Processor(t)>>}
    /\ pc = "askFile" => inflight = {<<"llm", "file">>}
    /\ pc = "askDirect" => inflight = {<<"llm", "direct">>}
    /\ pc = "submit" => inflight = {<<"submit", submitUrl>>}

C8_Witness ==
    /\ pc = "download"
    /\ fileIdx = 2
    /\ solverCalls = 2
    /\ inflight = {<<"download", 2>>}

\* C9 as stated: once a file has been downloaded and extracted, no later file
\* is downloaded in that attempt and exactly one file-grounded query is made,
\* whatever that query's outcome.
C9_StopAtFirstExtracted ==
    att.firstExtracted # 0
       => (att.downloads = att.firstExtracted /\ att.filePrompts = 1)

\* C9 as amended: files are downloaded in list order; each extracted file gets
\* one file-grounded query; iteration stops at the first file whose query
\* returns a completion (nothing is downloaded, extracted or asked after it);
\* a query that throws counts as that file's failure and the next file, or the
\* context-only prompt after the last one, is tried.
C9_StopAtFirstAnswered ==
    /\ [](/\ pc = "download" => fileIdx = att.downloads
          /\ att.filePrompts = att.extracted
          /\ att.fileAnswered
                => /\ pc \in {"submit", "resume", "loop", "done"}
                   /\ att.downloads = att.failed + 1
                   /\ ~att.ctxPrompt)
    /\ [][(pc = "askFile" /\ pc' # "askFile")
             => IF att'.fileAnswered
                THEN pc' = "submit" /\ att'.downloads = att.downloads
                ELSE /\ att'.failed = att.failed + 1
                     /\ fileIdx' = fileIdx + 1
                     /\ pc' = IF fileIdx < nFiles THEN "download" ELSE "askDirect"]_vars

C9_Witness ==
    /\ att.firstExtracted = 1
    /\ att.downloads = 2
    /\ att.filePrompts = 2
    /\ att.fileAnswered
    /\ pc = "submit"

\* C10 as stated: the context-only prompt is never sent in an attempt in which
\* some file was extracted successfully.
C10_ContextOnlyWithoutExtraction ==
    att.ctxPrompt => att.extracted = 0

\* C10 as amended: the context-only prompt is sent only when the file list is
\* empty or every file in it failed at download, at extraction or at its
\* file-grounded query; never in an attempt in which a file-grounded query
\* returned a completion.
C10_ContextOnlyAfterAllFilesFailed ==
    att.ctxPrompt => (att.failed = nFiles /\ att.downloads = nFiles /\ ~att.fileAnswered)

C10_Witness ==
    /\ pc = "askDirect"
    /\ att.ctxPrompt
    /\ nFiles = 2
    /\ att.failed = 2
    /\ att.extracted = 1

\* C11: a download or extraction that fails never ends the attempt: the code
\* stays inside solveQuizQuestion (nothing is resolved, nothing thrown out) and
\* goes on with the next file of the list, or with the context-only prompt
\* when the failed file was the last one.
C11_FileFailureIsSkipped ==
    [][(pc \in {"download", "extract"} /\ pc' # pc)
          => /\ result' = NoResult
             /\ pc' \in {"download", "extract", "askFile", "askDirect"}
             /\ att'.failed # att.failed
                   => /\ att'.failed = att.failed + 1
                      /\ fileIdx' = fileIdx + 1
                      /\ IF fileIdx < nFiles
                         THEN pc' = "download" /\ inflight' = {<<"download", fileIdx + 1>>}
                         ELSE pc' = "askDirect" /\ att'.ctxPrompt]_vars

C11_Witness ==
    /\ pc = "askDirect"
    /\ nFiles = 2
    /\ att.failed = 2
    /\ att.extracted = 0
    /\ att.downloads = 2
    /\ result = NoResult

\* C12: when extractQuizFromPage fails, the attempt settles with
\* {success: false, error} and no next URL; the attempt has downloaded no file,
\* asked the LLM nothing and POSTed nothing, and no call is left in flight.
\* solveMasterQuiz then leaves the loop on its failure break without a further
\* attempt.
C12_FetchFailureStopsChain ==
    [][/\ (pc = "fetch" /\ pc' = "resume")
             => /\ att'.fetch = "failed"
                /\ result'.kind = "value"
                /\ result'.success = FALSE
                /\ result'.nextUrl = Null
                /\ result'.error = ErrorMessage
                /\ att.downloads = 0 /\ att'.downloads = 0
                /\ att.filePrompts = 0 /\ att'.filePrompts = 0
                /\ ~att.ctxPrompt /\ ~att'.ctxPrompt
                /\ att.submits = 0 /\ att'.submits = 0
                /\ att.posted = Null /\ att'.posted = Null
                /\ inflight = {<<"fetch", quizUrl>>}
                /\ inflight' = {}
       /\ (pc = "resume" /\ att.fetch = "failed")
             => /\ pc' = "done"
                /\ endReason' = "failed"
                /\ solverCalls' = solverCalls
                /\ inflight' = {}]_vars

C12_Witness ==
    /\ pc = "done"
    /\ att.fetch = "failed"
    /\ endReason = "failed"
    /\ solverCalls = 2
    /\ result.success = FALSE
    /\ result.nextUrl = Null

\* C13: a submission that yields no response body (no submission URL on the
\* page, or axios.post rejecting without error.response) settles the attempt
\* with {success: false} and no next URL; solveMasterQuiz then stops on its
\* failure break, and once stopped nothing is attempted or POSTed again.
C13_NoResponseBodyStopsChain ==
    [][/\ (pc = "submit" /\ pc' # "submit" /\ submitUrl = Null)
             => att'.submit = "throw"
       /\ (pc = "submit" /\ att'.submit = "throw")
             => /\ pc' = "resume"
                /\ result'.kind = "value"
                /\ result'.success = FALSE
                /\ result'.nextUrl = Null
                /\ att'.body = Null
                /\ inflight' = {}
       /\ (pc = "resume" /\ att.submit = "throw")
             => /\ pc' = "done"
                /\ endReason' = "failed"
                /\ currentUrl' = currentUrl
                /\ solverCalls' = solverCalls
                /\ attempted' = attempted
                /\ inflight' = {}
       /\ (pc = "done") => UNCHANGED vars]_vars

C13_Witness ==
    /\ pc = "done"
    /\ att.submit = "throw"
    /\ att.fetch = "ok"
    /\ endReason = "failed"
    /\ attemptCount = 2
    /\ currentUrl = quizUrl

\* C14: an error-status response that carries a body is not rethrown by
\* submitAnswer: the attempt settles with that body's fields exactly as for a
\* 2xx response, and when the body names a next URL the chain goes on to that
\* URL even though the answer was wrong.
C14_ErrorStatusBodyIsResult ==
    [][/\ (pc = "submit" /\ att'.submit = "error")
             => /\ pc' = "resume"
                /\ att'.body \in Bodies
                /\ result'.kind = "value"
                /\ result'.success = att'.body.correct
                /\ result'.nextUrl = att'.body.url
       /\ (pc = "resume" /\ att.submit = "error" /\ att.body.url # Null)
             => /\ pc' = "loop"
                /\ currentUrl' = att.body.url
                /\ endReason' = "none"]_vars

C14_Witness ==
    /\ pc = "loop"
    /\ att.submit = "error"
    /\ att.body = [correct |-> FALSE, url |-> Url(2), reason |-> Reason]
    /\ result.success = FALSE
    /\ currentUrl = Url(2)
    /\ attempted = {Url(1)}
    /\ endReason = "none"

\* C15: while a submission is in flight it was POSTed to the submitUrl of the
\* page fetched in this attempt, and its body is {email, secret, url, answer}
\* with the chain's email and secret, the attempt's quiz URL (which is
\* solveMasterQuiz's currentUrl) and the normalized completion of this attempt;
\* an attempt POSTs once, and only there.
C15_SubmissionPayload ==
    /\ pc = "submit"
          => /\ att.posted = [to |-> submitUrl,
                              body |-> [email |-> Email,
                                        secret |-> Secret,
                                        url |-> currentUrl,
                                        answer |-> ParseAnswer(completion)]]
             /\ quizUrl = currentUrl
             /\ answer = ParseAnswer(completion)
             /\ att.fetch = "ok"
             /\ att.submits = 1
             /\ inflight = {<<"submit", submitUrl>>}
    /\ pc # "submit" => att.posted = Null /\ att.submits = 0

C15_Witness ==
    /\ pc = "submit"
    /\ attemptCount = 2
    /\ currentUrl = Url(2)
    /\ att.posted.to = SubmitUrl
    /\ att.posted.body.url = Url(2)
    /\ att.posted.body.answer = [tag |-> "Boolean", text |-> <<"false">>, finite |-> TRUE]

\* C16: once the submission of an attempt has answered with a body, the
\* attempt's result is that body remapped: success is its correct field,
\* nextUrl its url field, error its reason field.
C16_ResultIsRemappedBody ==
    att.submit \in {"2xx", "error"}
        => result = [kind |-> "value",
                     success |-> att.body.correct,
                     nextUrl |-> att.body.url,
                     error |-> att.body.reason]

C16_Witness ==
    /\ pc = "resume"
    /\ att.submit = "2xx"
    /\ att.body = [correct |-> FALSE, url |-> Url(2), reason |-> Reason]
    /\ result = [kind |-> "value", success |-> FALSE, nextUrl |-> Url(2), error |-> Reason]

\* C17: no failure of a collaborator leaves the chain.  Every attempt settles
\* with a value, never with a rejection, so the catch of solveMasterQuiz is not
\* even entered; an attempt ended by a failing page fetch, LLM query or
\* submission settles with {success: false, error} and no next URL; and
\* solveMasterQuiz always goes on to its loop condition or to one of its
\* ordinary exits.
C17_NoFailureLeavesChain ==
    [][/\ result.kind \in {"none", "value"}
       /\ result'.kind \in {"none", "value"}
       /\ endReason' \in {"none", "cap", "nourl", "deadline", "complete", "failed"}
       /\ (pc # "resume" /\ pc' = "resume")
             => /\ result'.kind = "value"
                /\ inflight' = {}
                /\ att'.submit \notin {"2xx", "error"}
                      => /\ result'.success = FALSE
                         /\ result'.nextUrl = Null
                         /\ result'.error = ErrorMessage
       /\ pc = "resume" => pc' \in {"loop", "done"}]_vars

C17_Witness ==
    /\ pc = "done"
    /\ endReason = "failed"
    /\ solverCalls = 2
    /\ att.fetch = "ok"
    /\ att.submit = "none"
    /\ result.kind = "value"
    /\ result.error = ErrorMessage

\* C18: parseAnswer classifies the trimmed completion by the first rule that
\* matches: bracketed and valid JSON gives the JSON value; else true / false in
\* any letter case gives the Boolean; else non-empty text that Number() converts
\* gives a Number; else the prefix data: gives the text as data URI; else the
\* trimmed text as String.  "1", "1.1" and "-1" are Numbers, "FALSE" is the
\* Boolean false, "[1]" is a JSON array.
C18_Precedence ==
    LET t == Trim(completion)
        isJson == Bracketed(t) /\ JsonValid(t)
        isBool == t \in {<<"true">>, <<"FALSE">>}
        isNum == t # <<>> /\ ~ToNumber(t).nan
        isData == StartsWith(t, "data:")
    IN pc = "parsed"
          => /\ answer.tag = (IF isJson THEN "JSON"
                              ELSE IF isBool THEN "Boolean"
                              ELSE IF isNum THEN "Number"
                              ELSE IF isData THEN "DataURI"
                              ELSE "String")
             /\ answer.text = (IF ~isJson /\ isBool
                               THEN (IF t = <<"true">> THEN <<"true">> ELSE <<"false">>)
                               ELSE t)
             /\ completion \in {<<"1">>, <<"1", ".", "1">>, <<"-", "1">>}
                   => answer.tag = "Number" /\ answer.finite
             /\ completion = <<"FALSE">> => answer = Answer("Boolean", <<"false">>)
             /\ completion = <<"[", "1", "]">> => answer = Answer("JSON", completion)

C18_Witness ==
    /\ pc = "parsed"
    /\ completion = <<"[", "1", "]">>
    /\ answer = [tag |-> "JSON", text |-> <<"[", "1", "]">>, finite |-> TRUE]

\* C19: parseAnswer returns for every completion.  A completion that starts
\* with { or [ and is not valid JSON, whether or not it also ends with the
\* closing bracket, is not returned as JSON: it ends as the trimmed String.
C19_NeverRaises ==
    LET t == Trim(completion) IN
    pc = "parsed"
       => /\ answer.tag \in {"JSON", "Boolean", "Number", "DataURI", "String"}
          /\ ((StartsWith(t, "{") \/ StartsWith(t, "[")) /\ ~JsonValid(t))
                => answer = [tag |-> "String", text |-> t, finite |-> TRUE]
          /\ answer.tag = "JSON" => Bracketed(t) /\ JsonValid(t)
          /\ completion = <<"{", "a">>
                => answer = [tag |-> "String", text |-> <<"{", "a">>, finite |-> TRUE]

C19_Witness ==
    /\ pc = "parsed"
    /\ completion = <<"{", "a", "}">>
    /\ answer = [tag |-> "String", text |-> <<"{", "a", "}">>, finite |-> TRUE]

\* C20: a Number returned by parseAnswer is finite and was read from a decimal
\* numeral: an optional sign, digits, and at most one decimal point.
C20_NumberIsFiniteDecimal ==
    LET t == Trim(completion)
        u == IF StartsWith(t, "-") THEN Tail(t) ELSE t
    IN (pc = "parsed" /\ answer.tag = "Number")
          => /\ answer.finite
             /\ \A i \in 1..Len(u) : u[i] \in {"1", "."}
             /\ \E i \in 1..Len(u) : u[i] = "1"
             /\ Cardinality({i \in 1..Len(u) : u[i] = "."}) <= 1

\* C21: detectFileType returns a tag for every file link.  The tag is that of
\* the first category, in the order csv, excel, pdf, json, image, audio, video,
\* one of whose extensions occurs in the URL or in the link text, in any letter
\* case, and text when none occurs; report.CSV is a csv file.
C21_FirstCategoryWins ==
    LET name == IF pc = "detected" THEN fileInfo.url \o fileInfo.text ELSE <<>>
        has(E) == \E i \in 1..Len(name) : name[i] \in E
    IN pc = "detected"
          => /\ fileType \in {"csv", "excel", "pdf", "json", "image", "audio", "video", "text"}
             /\ fileType =
                  (IF has({".csv", ".CSV"}) THEN "csv"
                   ELSE IF has({".xlsx", ".xls"}) THEN "excel"
                   ELSE IF has({".pdf"}) THEN "pdf"
                   ELSE IF has({".json"}) THEN "json"
                   ELSE IF has({".jpg", ".jpeg", ".png", ".gif", ".bmp", ".webp"}) THEN "image"
                   ELSE IF has({".mp3", ".wav", ".ogg", ".m4a"}) THEN "audio"
                   ELSE IF has({".mp4", ".avi", ".mov", ".mkv"}) THEN "video"
                   ELSE "text")
             /\ fileInfo = [url |-> <<"http://x/file", ".CSV">>, text |-> <<>>]
                   => fileType = "csv"

C21_Witness ==
    /\ pc = "detected"
    /\ fileInfo = [url |-> <<".pdf">>, text |-> <<".CSV">>]
    /\ fileType = "csv"

\* C22 as stated: a format word in the link text is recognised when the URL
\* has no extension: ("http://x/file", "PDF") is a pdf file.
C22_KeywordInLabel ==
    (pc = "detected" /\ fileInfo = [url |-> <<"http://x/file">>, text |-> <<"PDF">>])
        => fileType = "pdf"

\* C22 as amended: an extension in the link text is recognised when the URL
\* has none, so ("http://x/file", ".pdf") is a pdf file; a format word without
\* the dot is no pattern, so ("http://x/file", "PDF") is a text file.
C22_ExtensionInLabel ==
    pc = "detected"
       => /\ (/\ \A i \in 1..Len(fileInfo.url) : fileInfo.url[i] = "http://x/file"
              /\ \E i \in 1..Len(fileInfo.text) : fileInfo.text[i] = ".pdf"
              /\ \A i \in 1..Len(fileInfo.text) :
                    fileInfo.text[i] \notin {".csv", ".CSV", ".xlsx", ".xls"})
                => fileType = "pdf"
          /\ (/\ \A i \in 1..Len(fileInfo.url) : fileInfo.url[i] = "http://x/file"
              /\ \A i \in 1..Len(fileInfo.text) : fileInfo.text[i] \in {"PDF", "http://x/file"})
                => fileType = "text"

C22_Witness ==
    /\ pc = "detected"
    /\ fileInfo = [url |-> <<"http://x/file">>, text |-> <<".pdf">>]
    /\ fileType = "pdf"

\* C23: a downloaded file whose tag is csv, excel, pdf, image, audio or video
\* is given to exactly one processor, the one of its tag, once, and
\* processedData is what that processor resolved with.  A file tagged text is
\* given to no processor: processedData is fileData.toString().  (A file tagged
\* json is given to no processor either: its text is parsed in place.)
C23_OneExtractorByTag ==
    [][LET P == [csv |-> "processCSV", excel |-> "processExcel", pdf |-> "processPDF",
                 image |-> "processImage", audio |-> "processAudio",
                 video |-> "processVideo"]
       IN
       /\ (pc' = "extract" /\ pc # "extract")
             => /\ pc = "download"
                /\ fileIdx' = fileIdx
                /\ fileType' = DetectFileType(fileInfo'.url, fileInfo'.text)
                /\ fileType' \in DOMAIN P
                /\ inflight' = {<<"extract", P[fileType']>>}
                /\ processedData' = Null
       /\ (pc' = "extract" /\ pc = "extract")
             => UNCHANGED <<inflight, fileType, fileInfo, fileIdx>>
       /\ (pc' = "askFile" /\ pc # "askFile")
             => /\ inflight' = {<<"llm", "file">>}
                /\ fileIdx' = fileIdx
                /\ fileType' = DetectFileType(fileInfo'.url, fileInfo'.text)
                /\ IF pc = "extract"
                   THEN /\ fileType' = fileType
                        /\ processedData' = <<"output", P[fileType]>>
                   ELSE /\ pc = "download"
                        /\ fileType' \in {"text", "json"}
                        /\ processedData' = IF fileType' = "text"
                                            THEN <<"fileData.toString()">>
                                            ELSE <<"JSON.parse(fileData.toString())">>]_vars

C23_Witness ==
    /\ pc = "askFile"
    /\ fileIdx = 2
    /\ fileType = "audio"
    /\ processedData = <<"output", "processAudio">>
    /\ att.extracted = 1

\* C24: every prompt given to askClaude, file-grounded or context-only, holds
\* a line for each of the output rules: answer only, number as bare numeral,
\* boolean as true / false, JSON as valid JSON only, chart / image as base64
\* data URI, no explanatory text.  (Read by rule, not by wording: either
\* prompt's wording of a rule counts.)
C24_SameOutputRules ==
    LET has(R) == \E i \in 1..Len(prompt) : prompt[i] \in R IN
    pc \in {"askFile", "askDirect"}
       => /\ has({AnalysisInstructions[1], DirectInstructions[1]})
          /\ has({AnalysisInstructions[3], DirectInstructions[3]})
          /\ has({AnalysisInstructions[5], DirectInstructions[5]})
          /\ has({AnalysisInstructions[6], DirectInstructions[6]})
          /\ has({"- If you need to generate a chart/image, create it and respond with the base64 data URI"})
          /\ has({AnalysisInstructions[8], DirectInstructions[7]})

\* C25: POST /solve answers 400 when email, secret or url is missing, 403
\* when all three are there and the secret is not the configured one, 200
\* otherwise; the chain is started if and only if the answer is 200: after a
\* 400 or 403 nothing runs any more, so no page is fetched and nothing is
\* submitted, and a solver invocation is only ever made after a 200.
C25_StatusAndChainStart ==
    [][/\ pc = "request" =>
             LET missing == \/ ~request.object
                            \/ request.email = Null
                            \/ request.secret = Null
                            \/ request.url = Null
                 status == IF missing THEN 400
                           ELSE IF request.secret # <<"secret">> THEN 403
                           ELSE 200
             IN /\ responses' = <<status>>
                /\ (pc' = "loop") <=> (status = 200)
                /\ (pc' = "answered") <=> (status # 200)
                /\ status = 200 => currentUrl' = request.url
                /\ solverCalls' = 0 /\ inflight' = {}
       /\ pc # "answered"
       /\ (solverCalls' > 0 \/ inflight' # {}) => responses = <<200>>]_vars

\* A request with all three fields and another secret has been answered 403
\* and nothing has run.
C25_Witness ==
    /\ pc = "answered"
    /\ responses = <<403>>
    /\ solverCalls = 0
    /\ inflight = {}
    /\ currentUrl = Null

\* C26: the 200 of an accepted request is written before the chain's first
\* solver invocation; a request never has more than one response, and once a
\* response is written no later step of the chain, however it ends, adds to
\* it or changes it.
C26_OneResponseBeforeChain ==
    [][/\ solverCalls' > 0 => responses = <<200>>
       /\ Len(responses') <= 1
       /\ responses # <<>> => responses' = responses]_vars

\* A chain that was acknowledged with 200 has ended on a failed attempt, and
\* the response is still the single 200.
C26_Witness ==
    /\ pc = "done"
    /\ endReason = "failed"
    /\ solverCalls > 0
    /\ responses = <<200>>

\* C29: the renderer browser and the LLM browser are launched at most once
\* in a process, whatever the interleaving of the concurrent chains (no
\* browser is closed while chains run).
C29_LaunchedOnce ==
    /\ launched.browser <= 1
    /\ launched.llm <= 1

\* C27 as stated: askClaude makes at most maxRetries calls (3 when the option
\* is absent), returns on the first successful call and makes none after it,
\* has waited once after every failed call before the next one, and raises
\* only when maxRetries calls have been made and all of them failed.
C27_RaisesOnlyAfterLastCall ==
    LET m == IF ask.option = <<>> THEN 3
             ELSE IF ask.option[1] = 0 THEN 3 ELSE ask.option[1]
        n == Len(ask.calls)
    IN \A i \in DOMAIN callers :
          /\ n <= m
          /\ \A k \in 1..(n - 1) : ask.calls[k] # "ok"
          /\ callers[i].at = "returned" => n >= 1 /\ ask.calls[n] = "ok"
          /\ callers[i].at = "evaluate" => Len(ask.waits) = n
          /\ callers[i].at \in {"raised", "initRaised"}
                => n = m /\ \A k \in 1..n : ask.calls[k] # "ok"

\* C27, amended: the same, except that askClaude also raises, before any
\* call, when initializeLLM fails; an error out of the retry loop is raised
\* only when maxRetries calls have been made and all of them failed.
C27_BoundedRetry ==
    LET m == IF ask.option = <<>> THEN 3
             ELSE IF ask.option[1] = 0 THEN 3 ELSE ask.option[1]
        n == Len(ask.calls)
    IN \A i \in DOMAIN callers :
          /\ n <= m
          /\ \A k \in 1..(n - 1) : ask.calls[k] # "ok"
          /\ callers[i].at = "returned" => n >= 1 /\ ask.calls[n] = "ok"
          /\ callers[i].at = "evaluate" => Len(ask.waits) = n
          /\ callers[i].at = "wait" => Len(ask.waits) = n
          /\ callers[i].at = "raised"
                => n = m /\ \A k \in 1..n : ask.calls[k] # "ok"
          /\ callers[i].at = "initRaised" => n = 0 /\ ask.waits = <<>>

\* askClaude called without options has raised after three failed calls and
\* two waits.
C27_Witness ==
    /\ callers[1].at = "raised"
    /\ ask.option = <<>>
    /\ ask.calls = <<"error", "thrown", "error">>
    /\ Len(ask.waits) = 2

\* C28: the waits between the retries of one askClaude invocation grow by a
\* constant factor greater than 1: each is larger than the one before it and
\* the ratio of consecutive waits is the same throughout.
C28_ExponentialBackoff ==
    LET w == ask.waits IN
       /\ \A i \in 2..Len(w) : w[i] > w[i - 1]
       /\ \A i, j \in 2..Len(w) : w[i] * w[j - 1] = w[j] * w[i - 1]

\* C30: no page fetch, LLM query or answer submission of a chain is issued
\* later than 180 seconds after the POST that started it was received.
C30_WithinThreeMinutes ==
    [][\A c \in inflight' \ inflight :
          c[1] \in {"fetch", "llm", "submit"} => now * Tick <= 180000]_vars

\* C31: a POST to /solve whose body is not valid JSON is answered with
\* status 400, whatever its Content-Type.
C31_InvalidJsonIs400 ==
    [][(responses = <<>> /\ responses' # <<>> /\ incoming.text = "invalid json content")
          => responses' = <<400>>]_vars

\* C32: a caller that has passed initializeLLM, and so evaluates its prompt
\* on llmPage next, finds the initialisation complete: llmPage is set and no
\* other caller is still inside the launch, the page creation or the loading
\* of the page content.
C32_EvaluateAfterInit ==
    \A i \in DOMAIN callers :
       callers[i].at = "ready"
          => /\ llmPage # <<"null">>
             /\ \A j \in DOMAIN callers :
                   callers[j].at \notin {"llmLaunching", "llmNewPage", "llmLoading"}

\* C33: an attempt issues at most one submission POST, and only when its
\* page fetch succeeded and an LLM query has just returned a completion that
\* was normalised into an answer; when the context-only query, the last one
\* an attempt can make, fails as well, nothing is submitted, the attempt
\* resolves with {success: false, error} without a next URL, and the chain
\* then stops.
C33_SubmitOnlyWithAnswer ==
    [][/\ att'.submits <= 1
       /\ att'.submits > att.submits
             => /\ att.fetch = "ok"
                /\ pc \in {"askFile", "askDirect"}
                /\ pc = "askFile" => att'.fileAnswered
                /\ completion' # <<>>
                /\ answer'.tag # "none"
                /\ pc' = "submit"
       /\ (pc = "askDirect" /\ pc' = "resume")
             => /\ att.submits = 0
                /\ att'.submit = "none"
                /\ result' = [kind |-> "value", success |-> FALSE,
                              nextUrl |-> <<"null">>, error |-> <<"error.message">>]
       /\ (pc = "resume" /\ att.fetch = "ok" /\ att.submit = "none")
             => pc' = "done" /\ endReason' = "failed"]_vars

\* A chain has stopped on an attempt whose page was fetched and whose LLM
\* queries all failed: nothing was submitted.
C33_Witness ==
    /\ pc = "done"
    /\ endReason = "failed"
    /\ att.fetch = "ok"
    /\ att.submit = "none"
    /\ result.success = FALSE
    /\ result.error = <<"error.message">>

\* C35: when a chain has ended, in whatever way, attemptCount equals the
\* number of solveSingleQuiz invocations the chain made.
C35_AttemptCountIsInvocations ==
    pc = "done" => attemptCount = solverCalls

\* C34: the URL a chain invokes the solver on is the chain's initial URL at
\* its first invocation and afterwards the nextUrl of the result of the
\* attempt just before; currentUrl changes only when an attempt has resolved,
\* and then to that nextUrl; a step of one chain leaves currentUrl and
\* attemptCount of every other chain as they were.
C34_UrlOwnedByChain ==
    [][\A i \in DOMAIN chains :
          LET c == chains[i]
              d == chains'[i]
          IN /\ (c.at = "loop" /\ d.at = "await")
                   => /\ d.currentUrl = c.currentUrl
                      /\ c.currentUrl = IF c.attemptCount = 0 THEN c.initialUrl
                                        ELSE c.lastNext
             /\ d.currentUrl # c.currentUrl
                   => c.at = "await" /\ d.currentUrl = d.lastNext
             /\ \A j \in DOMAIN chains \ {i} :
                   chains'[j] # chains[j]
                      => /\ d.currentUrl = c.currentUrl
                         /\ d.attemptCount = c.attemptCount]_vars

\* Two chains started on different URLs; the first is in its second
\* invocation, on the URL its first attempt returned, while the second chain,
\* still at its own URL, is in its first.
C34_Witness ==
    /\ chains[1].at = "await"
    /\ chains[1].attemptCount = 2
    /\ chains[1].initialUrl = <<"url", 1>>
    /\ chains[1].currentUrl = <<"url", 2>>
    /\ chains[1].lastNext = <<"url", 2>>
    /\ chains[2].at = "await"
    /\ chains[2].attemptCount = 1
    /\ chains[2].currentUrl = <<"url", 1>>
    /\ chains[2].initialUrl = <<"url", 1>>

\* C36: a page opened by extractQuizFromPage is closed once that call has
\* settled, whether it returned quizData or raised (navigation timeout,
\* evaluation error), and when every call has settled no page is open.
C36_PagesClosedWhenSettled ==
    LET inCall == {"start", "launching", "fetching", "navigating",
                   "evaluating", "closing", "closingFailed"}
    IN /\ \A i \in DOMAIN callers :
            callers[i].at \notin inCall => <<"page", i>> \notin pages
       /\ (\A i \in DOMAIN callers : callers[i].at \notin inCall) => pages = {}

\* Two calls opened a page; one raised after it, the other returned.
C36_Witness ==
    /\ Len(callers) >= 2
    /\ callers[1].opened /\ callers[1].at = "raised"
    /\ callers[2].opened /\ callers[2].at = "askClaude"
    /\ pages = {}

\* C37: once a processVideo or processAudio call has returned or thrown, the
\* temp file it wrote no longer exists.
C37_TempFileRemoved ==
    \A i \in DOMAIN proc :
       (proc[i].wrote /\ proc[i].at \in {"returned", "raised"})
          => TempFile(i) \notin tmpdir

\* C38 (as stated): whenever pdf-parse gave a text of at most 100 non-blank
\* characters, processPDF does not return the extracted text.
C38_FewNonBlankGoesToLlm ==
    \A i \in DOMAIN proc :
       (proc[i].parsed /\ proc[i].text.nonBlank <= 100)
          => proc[i].method # "text-extraction"

\* C38 (amended): processPDF returns the extracted text exactly when its
\* trimmed length exceeds 100, without any LLM call; otherwise it queries the
\* LLM, and on any error it queries the LLM once more as a fallback; it
\* returns the result of the first strategy that succeeds, makes at most two
\* LLM calls, and when the fallback fails it throws the error that started
\* the fallback.
C38_StrategiesInOrder ==
    \A i \in DOMAIN proc :
       LET p == proc[i]
           trimmed == IF p.text.nonBlank = 0 THEN 0 ELSE p.text.nonBlank + p.text.inner
       IN p.fn = "processPDF" =>
            /\ p.llmCalls <= 2
            /\ (p.parsed /\ trimmed > 100)
                  => (p.at = "returned" /\ p.method = "text-extraction" /\ p.llmCalls = 0)
            /\ (p.parsed /\ trimmed <= 100) => p.method # "text-extraction"
            /\ p.at = "vision" => (p.parsed /\ p.llmCalls = 0 /\ p.error = "none")
            /\ p.method = "claude-vision"
                  => (p.at = "returned" /\ p.llmCalls = 1 /\ p.error = "none")
            /\ p.at = "fallback"
                  => \/ ~p.parsed /\ p.error = "pdfParse" /\ p.llmCalls = 0
                     \/ p.parsed /\ p.error = "vision" /\ p.llmCalls = 1
            /\ p.method = "claude-fallback"
                  => (p.at = "returned" /\ p.error # "none")
            /\ p.at = "returned" <=> p.method # "none"
            /\ p.at = "raised"
                  => (p.error \in {"pdfParse", "vision"} /\ p.thrown = p.error)

\* Both LLM queries of one PDF failed, and another PDF with 60 letters
\* spread over 110 characters was returned as extracted text.
C38_Witness ==
    /\ Len(proc) >= 2
    /\ proc[1].fn = "processPDF" /\ proc[1].at = "raised" /\ proc[1].llmCalls = 2
    /\ proc[2].fn = "processPDF" /\ proc[2].method = "text-extraction"
    /\ proc[2].text.nonBlank = 60

\* C39: downloadMultiple always returns, never raises: one result per input
\* URL in input order, the file for a download that succeeded and
\* {error, url} for one that failed; two invocations on the same URLs that
\* met the same per-URL outcomes return the same sequence, whatever their
\* parallel option.
C39_OneResultPerUrlInOrder ==
    /\ \A k \in DOMAIN downloads :
          LET d == downloads[k]
          IN /\ d.at \in {"start", "awaitAll", "awaitOne", "loop", "returned"}
             /\ d.at = "returned" =>
                   /\ Len(d.results) = Len(d.urls)
                   /\ \A j \in 1..Len(d.urls) :
                         d.results[j] = IF d.outcomes[j] = "ok"
                                        THEN [buffer |-> <<"buffer", d.urls[j]>>]
                                        ELSE [error |-> ErrorMessage, url |-> d.urls[j]]
    /\ \A k1, k2 \in DOMAIN downloads :
          (/\ downloads[k1].at = "returned"
           /\ downloads[k2].at = "returned"
           /\ downloads[k1].outcomes = downloads[k2].outcomes)
             => downloads[k1].results = downloads[k2].results

\* A parallel and a sequential invocation have both returned; the first URL
\* failed and the second succeeded, and the parallel downloads settled in
\* the reverse order.
C39_Witness ==
    /\ Len(downloads) = 2
    /\ downloads[1].option # <<FALSE>> /\ downloads[2].option = <<FALSE>>
    /\ downloads[1].at = "returned" /\ downloads[2].at = "returned"
    /\ Len(downloads[1].urls) >= 2
    /\ downloads[1].outcomes = downloads[2].outcomes
    /\ downloads[1].outcomes[1] = "failed" /\ downloads[1].outcomes[2] = "ok"
    /\ downloads[1].order[1] = 2

\* C40: transformData leaves the caller's data as it was; what it returns is
\* the operations applied in list order to a deep copy; an operation of
\* unknown type leaves the intermediate result unchanged and the loop goes
\* on to the next operation; with no operations the result equals the input.
C40_InputNeverMutated ==
    /\ [](/\ transform.data = transform.input
          /\ transform.at = "returned" =>
                LET copy == [shape |-> "array",
                             items |-> [j \in 1..Len(transform.input) |->
                                          Own(transform.input[j])]]
                    final == ApplyAll([result |-> copy, data |-> transform.input,
                                       globalV |-> Undefined, raised |-> FALSE],
                                      transform.ops, Len(transform.ops))
                IN /\ ~final.raised
                   /\ transform.result = final.result
                   /\ transform.ops = <<>> =>
                         /\ transform.result.shape = "array"
                         /\ [j \in 1..Len(transform.result.items) |->
                               RowOf(transform.data, transform.result.items[j])]
                            = transform.input)
    /\ [][(/\ transform.at = "loop"
           /\ transform.i <= Len(transform.ops)
           /\ transform.ops[transform.i].type \notin
                 {"filter", "sort", "group", "aggregate", "select", "rename", "compute"})
             => /\ transform'.result = transform.result
                /\ transform'.at = "loop"
                /\ transform'.i = transform.i + 1]_vars

\* A call has returned whose first operation assigned to the rows it was
\* given and whose second operation was of unknown type, on data holding a
\* row with v = 1.
C40_Witness ==
    /\ transform.at = "returned"
    /\ Len(transform.ops) >= 2
    /\ transform.ops[1].type = "compute" /\ transform.ops[1].arg = "v = 0"
    /\ transform.ops[2].type = "pivot"
    /\ Len(transform.input) >= 1
    /\ transform.input[1]["v"] = Num(1)

====
